---------------------------- MODULE Spec2Model ----------------------------
(***************************************************************************)
(* A model of jpyc-payment-qr's payment identifier codec: the decimal /    *)
(* minor-unit converter (jpyToWei, weiToJpy), the EIP-55 checksum engine   *)
(* (toChecksumAddress, isValidAddressFormat) and the EIP-681 identifier    *)
(* codec (encodeEIP681, decodeEIP681).                                      *)
(*                                                                         *)
(* JavaScript strings are sequences of one-character strings; Chars turns  *)
(* a literal into such a sequence.  A call's outcome is a record           *)
(* [kind |-> "return", value |-> v] or [kind |-> "throw", error |-> e].    *)
(* Error messages are Japanese text in the source; the model keeps an      *)
(* ASCII tag per message, one tag per throw site.                          *)
(***************************************************************************)
EXTENDS Integers, Sequences, FiniteSets, TLC

VARIABLES call, prev
vars == <<call, prev>>

(***************************************************************************)
(* Bounds of the model.                                                    *)
(***************************************************************************)
\* longest amount string enumerated over AmountAlphabet
MaxAmountLen == 3
\* numeric amounts s * 10^(n-k) are drawn with -MaxNumShift <= n
MaxNumShift == 7
\* longest digit string enumerated as a minor-unit amount
MaxWeiLen == 3

(***************************************************************************)
(* Strings.                                                                *)
(***************************************************************************)
Chars(s) == [i \in 1..Len(s) |-> SubSeq(s, i, i)]
Only(S) == CHOOSE e \in S : TRUE
Min(a, b) == IF a < b THEN a ELSE b
Max(a, b) == IF a > b THEN a ELSE b
Abs(a) == IF a < 0 THEN 0 - a ELSE a

DigitChars == Chars("0123456789")
Digits == {DigitChars[i] : i \in 1..10}
IsDigit(c) == c \in Digits
DigitVal(c) == (CHOOSE i \in 1..10 : DigitChars[i] = c) - 1
AllDigits(s) == \A i \in 1..Len(s) : IsDigit(s[i])

\* String.prototype.repeat / padEnd / padStart / slice(0, n) / startsWith
Repeat(c, n) == [i \in 1..n |-> c]
PadEnd(s, n, c) == IF Len(s) >= n THEN s ELSE s \o Repeat(c, n - Len(s))
PadStart(s, n, c) == IF Len(s) >= n THEN s ELSE Repeat(c, n - Len(s)) \o s
SliceTo(s, n) == SubSeq(s, 1, Min(n, Len(s)))
SliceFrom(s, n) == SubSeq(s, n + 1, Len(s))
StartsWith(s, p) == Len(s) >= Len(p) /\ SubSeq(s, 1, Len(p)) = p
\* index of the first occurrence of character c at or after position from; 0 if none
IndexFrom(s, c, from) ==
    IF \E i \in from..Len(s) : s[i] = c
    THEN CHOOSE i \in from..Len(s) : s[i] = c /\ \A j \in from..(i - 1) : s[j] # c
    ELSE 0
IndexOf(s, c) == IndexFrom(s, c, 1)
\* (s.match(/c/g) || []).length
CountChar(s, c) == Cardinality({i \in 1..Len(s) : s[i] = c})
\* s.replace(/^0+/, '') and s.replace(/0+$/, '')
StripLeadingZeros(s) ==
    IF \A i \in 1..Len(s) : s[i] = "0" THEN <<>>
    ELSE SubSeq(s, CHOOSE i \in 1..Len(s) : s[i] # "0" /\ \A j \in 1..(i - 1) : s[j] = "0", Len(s))
StripTrailingZeros(s) ==
    IF \A i \in 1..Len(s) : s[i] = "0" THEN <<>>
    ELSE SubSeq(s, 1, CHOOSE i \in 1..Len(s) : s[i] # "0" /\ \A j \in (i + 1)..Len(s) : s[j] = "0")

\* all strings over alphabet A of length at most n
RECURSIVE StringsUpTo(_, _)
StringsUpTo(A, n) ==
    IF n = 0 THEN {<<>>}
    ELSE LET S == StringsUpTo(A, n - 1)
         IN S \cup {Append(s, c) : s \in {t \in S : Len(t) = n - 1}, c \in A}

\* decimal digits of a natural number, as Number.prototype.toString prints an integer
RECURSIVE NatToStr(_)
NatToStr(n) == IF n < 10 THEN <<DigitChars[n + 1]>> ELSE Append(NatToStr(n \div 10), DigitChars[(n % 10) + 1])
RECURSIVE StrToNat(_)
StrToNat(s) == IF s = <<>> THEN 0 ELSE 10 * StrToNat(SubSeq(s, 1, Len(s) - 1)) + DigitVal(s[Len(s)])
RECURSIVE Pow10(_)
Pow10(n) == IF n = 0 THEN 1 ELSE 10 * Pow10(n - 1)

(***************************************************************************)
(* Outcomes and errors (src/src/errors.ts).                                *)
(***************************************************************************)
Return(v) == [kind |-> "return", value |-> v]
Throw(e) == [kind |-> "throw", error |-> e]
NoDetails == [undefined |-> TRUE]
JPYCPaymentError(message, code, details) ==
    [name |-> "JPYCPaymentError", message |-> message, code |-> code, details |-> details]
\* errors raised by the JavaScript runtime itself
SyntaxError(what) == [name |-> "SyntaxError", message |-> what]
TypeError(what) == [name |-> "TypeError", message |-> what]
Returned(o) == o.kind = "return"
Threw(o) == o.kind = "throw"
ThrewCode(o, code) == o.kind = "throw" /\ o.error.name = "JPYCPaymentError" /\ o.error.code = code

(***************************************************************************)
(* JavaScript values passed as arguments.                                  *)
(***************************************************************************)
Str(s) == [t |-> "string", s |-> s]
Undefined == [t |-> "undefined"]
\* a finite number is 0.d1..dk * 10^n with significant digits s = d1..dk
\* (no leading or trailing zero; s = <<>> is zero)
Num(neg, s, n) == [t |-> "number", kind |-> "finite", neg |-> neg, s |-> s, n |-> n]
Infinity(neg) == [t |-> "number", kind |-> "Infinity", neg |-> neg, s |-> <<>>, n |-> 0]
NaN == [t |-> "number", kind |-> "NaN", neg |-> FALSE, s |-> <<>>, n |-> 0]
Zero == Num(FALSE, <<>>, 0)
IsNaN(v) == v.kind = "NaN"
IsFinite(v) == v.kind = "finite"
\* a rational decimals argument num/den: 3/2 is 1.5
Rat(num, den) == [num |-> num, den |-> den]
IsInteger(r) == r.num % r.den = 0


(***************************************************************************)
(* Number.prototype.toString, Number.parseFloat and BigInt of the          *)
(* JavaScript runtime, as the converter uses them.                         *)
(***************************************************************************)
\* Number::toString(10): plain notation when 1e-6 <= |v| < 1e21, exponent notation otherwise
NumberToString(v) ==
    IF v.kind = "NaN" THEN Chars("NaN")
    ELSE IF v.kind = "Infinity" THEN (IF v.neg THEN <<"-">> ELSE <<>>) \o Chars("Infinity")
    ELSE IF v.s = <<>> THEN <<"0">>
    ELSE LET k == Len(v.s)
             n == v.n
             e == n - 1
             body == IF k <= n /\ n <= 21 THEN v.s \o Repeat("0", n - k)
                     ELSE IF 0 < n /\ n <= 21 THEN SubSeq(v.s, 1, n) \o <<".">> \o SubSeq(v.s, n + 1, k)
                     ELSE IF -6 < n /\ n <= 0 THEN <<"0", ".">> \o Repeat("0", 0 - n) \o v.s
                     ELSE (IF k = 1 THEN v.s ELSE <<v.s[1], ".">> \o SubSeq(v.s, 2, k))
                          \o <<"e", IF e > 0 THEN "+" ELSE "-">> \o NatToStr(Abs(e))
         IN (IF v.neg THEN <<"-">> ELSE <<>>) \o body

WhiteSpace == {" ", "\t", "\n", "\r"}
\* number of leading / trailing white space characters
LeadingWs(s) == IF \A i \in 1..Len(s) : s[i] \in WhiteSpace THEN Len(s)
                ELSE (CHOOSE i \in 1..Len(s) : s[i] \notin WhiteSpace /\ \A j \in 1..(i - 1) : s[j] \in WhiteSpace) - 1
TrailingWs(s) == IF \A i \in 1..Len(s) : s[i] \in WhiteSpace THEN Len(s)
                 ELSE Len(s) - (CHOOSE i \in 1..Len(s) : s[i] \notin WhiteSpace /\ \A j \in (i + 1)..Len(s) : s[j] \in WhiteSpace)
Trim(s) == IF LeadingWs(s) = Len(s) THEN <<>> ELSE SubSeq(s, LeadingWs(s) + 1, Len(s) - TrailingWs(s))
\* length of the run of decimal digits of s that starts at position from
DigitRun(s, from) ==
    IF from > Len(s) \/ ~IsDigit(s[from]) THEN 0
    ELSE IF \A i \in from..Len(s) : IsDigit(s[i]) THEN Len(s) - from + 1
    ELSE (CHOOSE i \in from..Len(s) : ~IsDigit(s[i]) /\ \A j \in from..(i - 1) : IsDigit(s[j])) - from
\* a < b as decimal fractions 0.a and 0.b
FracLess(a, b) ==
    LET m == Max(Len(a), Len(b))
        pa == PadEnd(a, m, "0")
        pb == PadEnd(b, m, "0")
    IN \E i \in 1..m : DigitVal(pa[i]) < DigitVal(pb[i]) /\ \A j \in 1..(i - 1) : pa[j] = pb[j]
\* the doubles 10^k that amounts are compared with (1, 10^6, 10^15), each with the fraction
\* digits of the largest excess over it, and of the smallest fraction under it, that still
\* round to it: half the distance to the neighbouring double, a tie going to 10^k
Landmarks ==
    {[k |-> 0, above |-> Chars("00000000000000011102230246251565404236316680908203125"),
               below |-> Chars("999999999999999944488848768742172978818416595458984375")],
     [k |-> 6, above |-> Chars("0000000000582076609134674072265625"),
               below |-> Chars("9999999999417923390865325927734375")],
     [k |-> 15, above |-> Chars("0625"), below |-> Chars("9375")]}
\* 0.s * 10^n is not 10^k but rounds to it
RoundsTo(L, s, n) ==
    \/ /\ n = L.k + 1 /\ Len(s) > L.k + 1
       /\ SubSeq(s, 1, L.k + 1) = <<"1">> \o Repeat("0", L.k)
       /\ ~FracLess(L.above, SubSeq(s, L.k + 2, Len(s)))
    \/ /\ n = L.k /\ Len(s) > L.k
       /\ SubSeq(s, 1, L.k) = Repeat("9", L.k)
       /\ ~FracLess(SubSeq(s, L.k + 1, Len(s)), L.below)
\* the IEEE-754 double nearest to 0.s * 10^n: overflow gives Infinity, underflow gives 0, and
\* a decimal within half a step of a landmark is that landmark; elsewhere the decimal is kept,
\* which leaves every comparison with a landmark as it is for the rounded value
ToDouble(neg, s, n) ==
    IF s = <<>> THEN Num(neg, <<>>, 0)
    ELSE IF n > 309 \/ (n = 309 /\ ~FracLess(s, Chars("17976931348623158079"))) THEN Infinity(neg)
    ELSE IF n < -323 \/ (n = -323 /\ FracLess(s, Chars("24703282292062327208"))) THEN Num(neg, <<>>, 0)
    ELSE IF \E L \in Landmarks : RoundsTo(L, s, n)
    THEN Num(neg, <<"1">>, (CHOOSE L \in Landmarks : RoundsTo(L, s, n)).k + 1)
    ELSE Num(neg, s, n)
\* the ExponentPart that follows the mantissa of t, which ends at mantEnd: its value, or 0
\* when there is none
ExponentOf(t, mantEnd) ==
    LET hasE == Len(t) > mantEnd /\ t[mantEnd + 1] \in {"e", "E"}
        eSigned == Len(t) > mantEnd + 1 /\ t[mantEnd + 1] \in {"e", "E"} /\ t[mantEnd + 2] \in {"+", "-"}
    IN Only({Only({Only({IF eSigned /\ t[mantEnd + 2] = "-" THEN 0 - eAbs ELSE eAbs :
                           eAbs \in {IF c > 0 THEN StrToNat(SubSeq(t, eFrom, eFrom + c - 1)) ELSE 0}}) :
                     c \in {IF hasE THEN DigitRun(t, eFrom) ELSE 0}}) :
               eFrom \in {mantEnd + (IF eSigned THEN 3 ELSE 2)}})
\* the mathematical value of the unsigned literal t, a digits before the point and b digits
\* after it
DecimalLiteral(neg, t, a, b) ==
    LET hasDot == Len(t) > a /\ t[a + 1] = "."
    IN Only({IF StartsWith(t, Chars("Infinity")) THEN Infinity(neg)
             ELSE IF a = 0 /\ b = 0 THEN NaN
             ELSE Num(neg, StripTrailingZeros(StripLeadingZeros(all)),
                      a - (Len(all) - Len(StripLeadingZeros(all))) + exp) :
               all \in {SubSeq(t, 1, a) \o (IF hasDot THEN SubSeq(t, a + 2, a + 1 + b) ELSE <<>>)},
               exp \in {ExponentOf(t, a + (IF hasDot THEN 1 + b ELSE 0))}})
\* the unsigned part of a literal: its digit runs around the point
UnsignedLiteral(neg, t) ==
    Only({Only({DecimalLiteral(neg, t, a, b) :
                  b \in {IF Len(t) > a /\ t[a + 1] = "." THEN DigitRun(t, a + 2) ELSE 0}}) :
            a \in {DigitRun(t, 1)}})
\* the longest prefix of the trimmed string that is a StrDecimalLiteral, and its
\* mathematical value (NaN when there is none)
StrDecimalLiteral(str) ==
    Only({LET signed == Len(t0) > 0 /\ t0[1] \in {"+", "-"}
          IN UnsignedLiteral(signed /\ t0[1] = "-", IF signed THEN SliceFrom(t0, 1) ELSE t0) :
            t0 \in {SliceFrom(str, LeadingWs(str))}})
\* Number.parseFloat: the double nearest to the value of the literal
parseFloat(str) ==
    Only({IF IsFinite(v) THEN ToDouble(v.neg, v.s, v.n) ELSE v : v \in {StrDecimalLiteral(str)}})

\* a BigInt is a sign and the decimal digits of its magnitude ("0" for zero)
Big(neg, mag) == [neg |-> neg, mag |-> mag]
BigNorm(neg, digits) ==
    LET m == StripLeadingZeros(digits)
    IN IF m = <<>> THEN Big(FALSE, <<"0">>) ELSE Big(neg, m)
\* digits * m + carry on decimal digit strings (<<>> is zero)
RECURSIVE MulAdd(_, _, _)
MulAdd(d, m, carry) ==
    IF d = <<>> THEN (IF carry = 0 THEN <<>> ELSE NatToStr(carry))
    ELSE LET v == DigitVal(d[Len(d)]) * m + carry
         IN Append(MulAdd(SubSeq(d, 1, Len(d) - 1), m, v \div 10), DigitChars[(v % 10) + 1])
RadixChars == Chars("0123456789abcdef")
RadixVal(c) ==
    LET lc == CASE c = "A" -> "a" [] c = "B" -> "b" [] c = "C" -> "c" [] c = "D" -> "d"
                [] c = "E" -> "e" [] c = "F" -> "f" [] OTHER -> c
    IN IF \E i \in 1..16 : RadixChars[i] = lc THEN (CHOOSE i \in 1..16 : RadixChars[i] = lc) - 1 ELSE 99
RECURSIVE RadixDigits(_, _)
RadixDigits(s, base) ==
    IF s = <<>> THEN <<>>
    ELSE MulAdd(RadixDigits(SubSeq(s, 1, Len(s) - 1), base), base, RadixVal(s[Len(s)]))
\* BigInt(string): StringToBigInt, a SyntaxError when the text is no integer literal
BigInt(str) ==
    Only({LET signed == Len(t) > 0 /\ t[1] \in {"+", "-"}
              body == IF Len(t) > 0 /\ t[1] \in {"+", "-"} THEN SliceFrom(t, 1) ELSE t
              base == IF Len(t) < 2 \/ t[1] # "0" THEN 10
                      ELSE IF t[2] \in {"x", "X"} THEN 16
                      ELSE IF t[2] \in {"o", "O"} THEN 8
                      ELSE IF t[2] \in {"b", "B"} THEN 2
                      ELSE 10
              rest == SliceFrom(t, 2)
          IN IF t = <<>> THEN Return(Big(FALSE, <<"0">>))
             ELSE IF base # 10
                  THEN IF rest # <<>> /\ \A i \in 1..Len(rest) : RadixVal(rest[i]) < base
                       THEN Return(BigNorm(FALSE, RadixDigits(rest, base)))
                       ELSE Throw(SyntaxError("Cannot convert to a BigInt"))
             ELSE IF body # <<>> /\ AllDigits(body) THEN Return(BigNorm(signed /\ t[1] = "-", body))
             ELSE Throw(SyntaxError("Cannot convert to a BigInt")) :
            t \in {Trim(str)}})
BigIntToString(b) == (IF b.neg THEN <<"-">> ELSE <<>>) \o b.mag
\* b / 10^p and b % 10^p (BigInt division truncates toward zero; the remainder takes b's sign)
BigIntDivPow10(b, p) ==
    IF Len(b.mag) > p THEN Big(b.neg, SubSeq(b.mag, 1, Len(b.mag) - p)) ELSE Big(FALSE, <<"0">>)
BigIntModPow10(b, p) ==
    BigNorm(b.neg, SubSeq(b.mag, Max(1, Len(b.mag) - p + 1), Len(b.mag)))

(***************************************************************************)
(* The converter (src/src/encoder.ts).                                     *)
(***************************************************************************)
JPYC_DECIMALS == 18
\* the test without its Number.isInteger part
InvalidDecimals_RangeOnly(decimals) ==
    decimals.num < 0 \/ decimals.num > 18 * decimals.den
\* decimals < 0 || decimals > 18 || !Number.isInteger(decimals)
InvalidDecimals(decimals) ==
    decimals.num < 0 \/ decimals.num > 18 * decimals.den \/ ~IsInteger(decimals)

\* lines 58-66: the parts around the point, padded or cut to p fraction digits, as a BigInt
ScaledInteger(amountStr, p) ==
    LET dot == IndexOf(amountStr, ".")
        part0 == IF dot = 0 THEN amountStr ELSE SubSeq(amountStr, 1, dot - 1)
        part1 == IF dot = 0 THEN <<>> ELSE SliceFrom(amountStr, dot)
        intPart == IF part0 = <<>> THEN <<"0">> ELSE part0
        decPart == part1
        paddedDec == SliceTo(PadEnd(decPart, p, "0"), p)
    IN BigInt(intPart \o paddedDec)
jpyToWei(amount, decimals) ==
    Only({Only({IF InvalidDecimals(decimals)
                THEN Throw(JPYCPaymentError("decimals must be an integer from 0 to 18", "INVALID_DECIMALS", NoDetails))
                ELSE IF StartsWith(amountStr, <<"-">>)
                THEN Throw(JPYCPaymentError("amount cannot be negative", "INVALID_AMOUNT", [amount |-> amountStr]))
                ELSE IF IsNaN(amountNum)
                THEN Throw(JPYCPaymentError("invalid amount format", "INVALID_AMOUNT", [amount |-> amountStr]))
                ELSE IF ~IsFinite(amountNum)
                THEN Throw(JPYCPaymentError("amount must be finite", "INVALID_AMOUNT", [amount |-> amountStr]))
                ELSE IF CountChar(amountStr, ".") > 1
                THEN Throw(JPYCPaymentError("amount has several decimal points", "INVALID_AMOUNT", [amount |-> amountStr]))
                ELSE Only({IF Threw(weiAmount) THEN weiAmount ELSE Return(BigIntToString(weiAmount.value)) :
                             weiAmount \in {ScaledInteger(amountStr, decimals.num \div decimals.den)}}) :
                  amountNum \in {parseFloat(amountStr)}}) :
            amountStr \in {IF amount.t = "string" THEN amount.s ELSE NumberToString(amount)}})

\* the fraction digits without the padding of line 91
WeiDecPart_NoPad(remainder, p) == BigIntToString(remainder)
\* remainder.toString().padStart(decimals, '0')
WeiDecPart(remainder, p) == PadStart(BigIntToString(remainder), p, "0")
\* the fraction digits with their trailing zeros kept
TrimmedDecPart_Keep(decPart) == decPart
\* decPart.replace(/0+$/, '')
TrimmedDecPart(decPart) == StripTrailingZeros(decPart)
weiToJpy(weiAmount, decimals) ==
    LET wei == BigInt(weiAmount)
        p == decimals.num \div decimals.den
        intPart == BigIntDivPow10(wei.value, p)
        remainder == BigIntModPow10(wei.value, p)
        decPart == WeiDecPart(remainder, p)
        trimmedDecPart == TrimmedDecPart(decPart)
    IN IF InvalidDecimals(decimals)
       THEN Throw(JPYCPaymentError("decimals must be an integer from 0 to 18", "INVALID_DECIMALS", NoDetails))
       ELSE IF Threw(wei) THEN wei
       ELSE IF trimmedDecPart # <<>>
       THEN Return(BigIntToString(intPart) \o <<".">> \o trimmedDecPart)
       ELSE Return(BigIntToString(intPart))

(***************************************************************************)
(* Keccak-256 (keccak_256 of @noble/hashes/sha3, imported by               *)
(* src/src/checksum.ts).  The 1600-bit state is the set of its set bits:   *)
(* bit z of lane (x, y) is number 64 * (x + 5 * y) + z.  Every step binds  *)
(* its result to a bound variable, so that it is computed once.            *)
(***************************************************************************)
Bit(xx, yy, z) == 64 * ((xx % 5) + 5 * (yy % 5)) + (z % 64)
LaneX(q) == (q \div 64) % 5
LaneY(q) == q \div 320
LaneZ(q) == q % 64
B2N(b) == IF b THEN 1 ELSE 0
\* the round constants, as the sets of their set bits
KeccakRC ==
    << {0}, {1,7,15}, {1,3,7,15,63}, {15,31,63}, {0,1,3,7,15}, {0,31},
       {0,7,15,31,63}, {0,3,15,63}, {1,3,7}, {3,7}, {0,3,15,31}, {1,3,31},
       {0,1,3,7,15,31}, {0,1,3,7,63}, {0,3,7,15,63}, {0,1,15,63}, {1,15,63},
       {7,63}, {1,3,15}, {1,3,31,63}, {0,7,15,31,63}, {7,15,63}, {0,31},
       {3,15,31,63} >>
\* the rotation offsets of lane x + 5 * y
KeccakRot ==
    << 0, 1, 62, 28, 27,   36, 44, 6, 55, 20,   3, 10, 43, 25, 39,
       41, 45, 15, 21, 8,   18, 2, 61, 56, 14 >>
ColumnParity(A) == {p \in 0..319 :
    (B2N(Bit(p \div 64, 0, p) \in A) + B2N(Bit(p \div 64, 1, p) \in A) + B2N(Bit(p \div 64, 2, p) \in A)
     + B2N(Bit(p \div 64, 3, p) \in A) + B2N(Bit(p \div 64, 4, p) \in A)) % 2 = 1}
ThetaD(C) == {p \in 0..319 :
    (Bit((p \div 64) + 4, 0, p) \in C) # (Bit((p \div 64) + 1, 0, p + 63) \in C)}
Theta(A, D) == {q \in 0..1599 : (q \in A) # (Bit(LaneX(q), 0, q) \in D)}
RhoPi(T) == {q \in 0..1599 :
    LET sx == (LaneX(q) + 3 * LaneY(q)) % 5
        sy == LaneX(q)
    IN Bit(sx, sy, LaneZ(q) + 64 - KeccakRot[sx + 5 * sy + 1]) \in T}
Chi(B) == {q \in 0..1599 :
    (q \in B) # ((Bit(LaneX(q) + 2, LaneY(q), q) \in B) /\ (Bit(LaneX(q) + 1, LaneY(q), q) \notin B))}
Iota(E, r) == {q \in 0..1599 : (q \in E) # (q \in KeccakRC[r])}
KeccakRound(A, r) ==
    Only({ Only({ Only({ Only({ Only({ Iota(E, r) : E \in {Chi(B)} })
                                : B \in {RhoPi(T)} })
                         : T \in {Theta(A, D)} })
                  : D \in {ThetaD(C)} })
           : C \in {ColumnParity(A)} })
RECURSIVE KeccakF(_, _)
KeccakF(A, r) == IF r > 24 THEN A ELSE Only({ KeccakF(B, r + 1) : B \in {KeccakRound(A, r)} })

\* the UTF-8 byte of an ASCII letter or digit
AsciiFrom48 == Chars("0123456789")
AsciiFrom65 == Chars("ABCDEFGHIJKLMNOPQRSTUVWXYZ")
AsciiFrom97 == Chars("abcdefghijklmnopqrstuvwxyz")
CharCode(c) ==
    IF \E i \in 1..10 : AsciiFrom48[i] = c THEN 47 + CHOOSE i \in 1..10 : AsciiFrom48[i] = c
    ELSE IF \E i \in 1..26 : AsciiFrom65[i] = c THEN 64 + CHOOSE i \in 1..26 : AsciiFrom65[i] = c
    ELSE 96 + CHOOSE i \in 1..26 : AsciiFrom97[i] = c
RECURSIVE Pow2(_)
Pow2(n) == IF n = 0 THEN 1 ELSE 2 * Pow2(n - 1)
\* byte k of the single padded block: the message, 0x01, zeros, and 0x80 in the last byte of the rate
PadByte(msg, k) ==
    (IF k < Len(msg) THEN CharCode(msg[k + 1]) ELSE IF k = Len(msg) THEN 1 ELSE 0)
    + (IF k = 135 THEN 128 ELSE 0)
Absorb(msg) == {q \in 0..1087 : (PadByte(msg, q \div 8) \div Pow2(q % 8)) % 2 = 1}
\* the 32 bytes of the digest of a message shorter than the rate (136 bytes)
Keccak256(msg) ==
    Only({ [k \in 1..32 |->
              LET off == 8 * (k - 1)
              IN B2N(off \in A) + 2 * B2N(off + 1 \in A) + 4 * B2N(off + 2 \in A) + 8 * B2N(off + 3 \in A)
                 + 16 * B2N(off + 4 \in A) + 32 * B2N(off + 5 \in A) + 64 * B2N(off + 6 \in A)
                 + 128 * B2N(off + 7 \in A)]
           : A \in {KeccakF(Absorb(msg), 1)} })

(***************************************************************************)
(* The checksum engine (src/src/checksum.ts).                              *)
(***************************************************************************)
ToLowerChar(c) == IF \E i \in 1..26 : AsciiFrom65[i] = c THEN AsciiFrom97[CHOOSE i \in 1..26 : AsciiFrom65[i] = c] ELSE c
ToUpperChar(c) == IF \E i \in 1..26 : AsciiFrom97[i] = c THEN AsciiFrom65[CHOOSE i \in 1..26 : AsciiFrom97[i] = c] ELSE c
ToLowerCase(s) == [i \in 1..Len(s) |-> ToLowerChar(s[i])]
ToUpperCase(s) == [i \in 1..Len(s) |-> ToUpperChar(s[i])]
HexChars == {RadixChars[i] : i \in 1..16} \cup {"A", "B", "C", "D", "E", "F"}

\* the 40 lower-case digits of the addresses the model passes around, and their
\* digests, computed once
AddressBases ==
    {Chars("e7c3d8c9a439fede00d2600032d5db0be71c3c29"),
     Chars("1234567890123456789012345678901234567890"),
     Chars("abcdefabcdefabcdefabcdefabcdefabcdefabcd")}
KeccakMemo == {<<m, Keccak256(m)>> : m \in AddressBases}
keccak_256(msg) ==
    IF msg \in AddressBases THEN (CHOOSE e \in KeccakMemo : e[1] = msg)[2] ELSE Keccak256(msg)

\* byte.toString(16).padStart(2, '0'), joined
bytesToHex(bytes) ==
    [i \in 1..(2 * Len(bytes)) |->
        IF i % 2 = 1 THEN RadixChars[(bytes[(i + 1) \div 2] \div 16) + 1]
        ELSE RadixChars[(bytes[i \div 2] % 16) + 1]]

\* /^0x[a-fA-F0-9]{40}$/.test(address)
\* the pattern without its end anchor
AddressRegex_NoEnd(address) ==
    /\ Len(address) >= 42
    /\ address[1] = "0" /\ address[2] = "x"
    /\ \A i \in 3..42 : address[i] \in HexChars
\* /^0x[a-fA-F0-9]{40}$/.test(address)
AddressRegex(address) ==
    /\ Len(address) = 42
    /\ address[1] = "0" /\ address[2] = "x"
    /\ \A i \in 3..42 : address[i] \in HexChars
\* RegExp.prototype.test converts its argument to a string first
RegexSubject(v) == IF v.t = "string" THEN v.s ELSE IF v.t = "undefined" THEN Chars("undefined") ELSE NumberToString(v)
isValidAddressFormat(address) == Return(AddressRegex(RegexSubject(address)))

LowerCaseAddress(address) == ToLowerCase(SliceFrom(address, 2))
\* the character of the address as it was written
LoopChar_Raw(address, lowerCaseAddress, i) == address[i + 2]
\* const char = lowerCaseAddress[i]
LoopChar(address, lowerCaseAddress, i) == lowerCaseAddress[i]
\* the comparison with > in place of >=
ChecksumChar_Above8(char, hashValue) == IF hashValue > 8 THEN ToUpperChar(char) ELSE char
\* hashValue >= 8 ? char.toUpperCase() : char
ChecksumChar(char, hashValue) == IF hashValue >= 8 THEN ToUpperChar(char) ELSE char
toChecksumAddress(address) ==
    IF address.t # "string" THEN Throw(TypeError("address.startsWith is not a function"))
    ELSE IF ~StartsWith(address.s, <<"0", "x">>)
    THEN Throw(JPYCPaymentError("address must start with 0x", "INVALID_ADDRESS", [address |-> address.s]))
    ELSE IF Len(address.s) # 42
    THEN Throw(JPYCPaymentError("address must be 42 characters", "INVALID_ADDRESS",
                                [address |-> address.s, length |-> Len(address.s)]))
    ELSE IF ~AddressRegex(address.s)
    THEN Throw(JPYCPaymentError("address must be hexadecimal", "INVALID_ADDRESS", [address |-> address.s]))
    ELSE LET lowerCaseAddress == LowerCaseAddress(address.s)
             hashHex == bytesToHex(keccak_256(lowerCaseAddress))
         IN Return(<<"0", "x">> \o
                   [i \in 1..Len(lowerCaseAddress) |->
                       ChecksumChar(LoopChar(address.s, lowerCaseAddress, i), RadixVal(hashHex[i]))])

\* a comparison that ignores the case of the letters
ChecksumEquals_IgnoreCase(address, checksummed) == ToLowerCase(address) = ToLowerCase(checksummed)
\* address === checksummed
ChecksumEquals(address, checksummed) == address = checksummed
\* the try block and the catch clause of isValidChecksumAddress
isValidChecksumAddress(address) ==
    Only({IF Threw(checksummed) THEN Return(FALSE)
          ELSE Return(ChecksumEquals(address.s, checksummed.value)) :
            checksummed \in {toChecksumAddress(address)}})

(***************************************************************************)
(* The identifier codec (src/src/encoder.ts).                              *)
(***************************************************************************)
EIP681_SCHEME == Chars("ethereum")
TRANSFER_FUNCTION == Chars("transfer")

\* `${chainId}`: the text of a number, or "undefined"
TemplateText(v) == IF v.t = "undefined" THEN Chars("undefined") ELSE NumberToString(v)
\* the identifier with its two parameters in the other order
FormatURI_ParamsSwapped(checksummedContract, chainId, checksummedRecipient, amount) ==
    EIP681_SCHEME \o <<":">> \o checksummedContract \o <<"@">> \o TemplateText(chainId) \o <<"/">>
    \o TRANSFER_FUNCTION \o Chars("?uint256=") \o amount \o Chars("&address=") \o checksummedRecipient
\* the template literal of the identifier
FormatURI(checksummedContract, chainId, checksummedRecipient, amount) ==
    EIP681_SCHEME \o <<":">> \o checksummedContract \o <<"@">> \o TemplateText(chainId) \o <<"/">>
    \o TRANSFER_FUNCTION \o Chars("?address=") \o checksummedRecipient \o Chars("&uint256=") \o amount
\* a catch clause that wraps whatever it catches
EncodeCatch_AlwaysWrap(error) ==
    Throw(JPYCPaymentError("failed to encode the EIP-681 URI", "ENCODING_FAILED", [error |-> error]))
\* the catch clause of encodeEIP681
EncodeCatch(error) ==
    IF error.name = "JPYCPaymentError" THEN Throw(error)
    ELSE Throw(JPYCPaymentError("failed to encode the EIP-681 URI", "ENCODING_FAILED", [error |-> error]))
encodeEIP681(contractAddress, recipientAddress, amount, chainId) ==
    LET checksummedContract == toChecksumAddress(contractAddress)
        checksummedRecipient == toChecksumAddress(recipientAddress)
    IN IF Threw(checksummedContract) THEN EncodeCatch(checksummedContract.error)
       ELSE IF Threw(checksummedRecipient) THEN EncodeCatch(checksummedRecipient.error)
       ELSE Return(FormatURI(checksummedContract.value, chainId, checksummedRecipient.value, amount))

\* the pieces of s between the occurrences of sep (String.prototype.split)
RECURSIVE Split(_, _)
Split(s, sep) ==
    LET i == IndexOf(s, sep)
    IN IF i = 0 THEN <<s>> ELSE <<SubSeq(s, 1, i - 1)>> \o Split(SliceFrom(s, i), sep)
NoMatch == [found |-> FALSE, text |-> <<>>]
Match(text) == [found |-> TRUE, text |-> text]
\* the capture of /open([^stop]+)stop/: the leftmost open that a non-empty run without stop, then stop, follows
MatchBetween(uri, open, stop) ==
    LET starts == {i \in 1..Len(uri) : /\ uri[i] = open
                                       /\ i < Len(uri) /\ uri[i + 1] # stop
                                       /\ IndexFrom(uri, stop, i + 2) # 0}
        i == CHOOSE k \in starts : \A j \in starts : k <= j
    IN IF starts = {} THEN NoMatch ELSE Match(SubSeq(uri, i + 1, IndexFrom(uri, stop, i + 2) - 1))
\* the capture of /^([^:]+):/
MatchScheme(uri) ==
    IF IndexOf(uri, ":") >= 2 THEN Match(SubSeq(uri, 1, IndexOf(uri, ":") - 1)) ELSE NoMatch
\* the capture of /@(\d+)\//
MatchChainId(uri) ==
    LET starts == {i \in 1..Len(uri) : /\ uri[i] = "@"
                                       /\ DigitRun(uri, i + 1) >= 1
                                       /\ i + DigitRun(uri, i + 1) < Len(uri)
                                       /\ uri[i + DigitRun(uri, i + 1) + 1] = "/"}
        i == CHOOSE k \in starts : \A j \in starts : k <= j
    IN IF starts = {} THEN NoMatch ELSE Match(SubSeq(uri, i + 1, i + DigitRun(uri, i + 1)))
\* Number.parseInt(digits, 10) of a run of decimal digits
ParseInt(digits) ==
    LET m == StripLeadingZeros(digits)
    IN ToDouble(FALSE, StripTrailingZeros(m), Len(m))
\* application/x-www-form-urlencoded decoding of a name or value: "+" is a space and
\* %XX a byte (the bytes of letters and digits are decoded, any other is kept as written)
RECURSIVE FormDecode(_)
FormDecode(s) ==
    IF s = <<>> THEN <<>>
    ELSE IF s[1] = "+" THEN <<" ">> \o FormDecode(SliceFrom(s, 1))
    ELSE IF s[1] = "%" /\ Len(s) >= 3 /\ RadixVal(s[2]) < 16 /\ RadixVal(s[3]) < 16
    THEN LET code == 16 * RadixVal(s[2]) + RadixVal(s[3])
             known == {c \in {AsciiFrom48[i] : i \in 1..10} \cup {AsciiFrom65[i] : i \in 1..26}
                                \cup {AsciiFrom97[i] : i \in 1..26} : CharCode(c) = code}
         IN (IF known = {} THEN SubSeq(s, 1, 3) ELSE <<Only(known)>>) \o FormDecode(SliceFrom(s, 3))
    ELSE <<s[1]>> \o FormDecode(SliceFrom(s, 1))
\* the query string read as one single pair
SearchParams_NoSplit(queryString) ==
    LET eq == IndexOf(queryString, "=")
    IN IF eq = 0 THEN <<[name |-> queryString, value |-> <<>>]>>
       ELSE <<[name |-> SubSeq(queryString, 1, eq - 1), value |-> SliceFrom(queryString, eq)]>>
\* new URLSearchParams(queryString): the name/value pairs, in order
SearchParams(queryString) ==
    LET pieces == Split(queryString, "&")
        kept == SelectSeq(pieces, LAMBDA piece : piece # <<>>)
    IN [k \in 1..Len(kept) |->
          LET eq == IndexOf(kept[k], "=")
          IN IF eq = 0 THEN [name |-> FormDecode(kept[k]), value |-> <<>>]
             ELSE [name |-> FormDecode(SubSeq(kept[k], 1, eq - 1)), value |-> FormDecode(SliceFrom(kept[k], eq))]]
\* params.get(name): the first value of that name, or null
ParamGet(params, name) ==
    LET hits == {k \in 1..Len(params) : params[k].name = name}
    IN IF hits = {} THEN NoMatch ELSE Match(params[CHOOSE k \in hits : \A j \in hits : k <= j].value)
\* the catch clause of decodeEIP681
DecodeCatch(uri, error) ==
    Throw(JPYCPaymentError("failed to decode the EIP-681 URI", "ENCODING_FAILED", [uri |-> uri, error |-> error]))
Error(message) == [name |-> "Error", message |-> message]
\* an address put into lower case on the way out
CapturedAddress_Lowered(text) == ToLowerCase(text)
\* const contractAddress = contractMatch[1], const recipientAddress = params.get('address')
CapturedAddress(text) == text
decodeEIP681(uri) ==
    IF uri.t # "string" THEN DecodeCatch(uri, TypeError("uri.match is not a function"))
    ELSE
    LET schemeMatch == MatchScheme(uri.s)
        contractMatch == MatchBetween(uri.s, ":", "@")
        chainIdMatch == MatchChainId(uri.s)
        functionMatch == MatchBetween(uri.s, "/", "?")
        parts == Split(uri.s, "?")
        queryString == IF Len(parts) >= 2 THEN parts[2] ELSE <<>>
        params == SearchParams(queryString)
        recipientAddress == ParamGet(params, Chars("address"))
        amount == ParamGet(params, Chars("uint256"))
    IN IF ~schemeMatch.found THEN DecodeCatch(uri, Error("scheme not found"))
       ELSE IF ~contractMatch.found THEN DecodeCatch(uri, Error("contract address not found"))
       ELSE IF ~chainIdMatch.found THEN DecodeCatch(uri, Error("chain id not found"))
       ELSE IF ~functionMatch.found THEN DecodeCatch(uri, Error("function name not found"))
       ELSE IF queryString = <<>> THEN DecodeCatch(uri, Error("query parameters not found"))
       ELSE IF ~recipientAddress.found \/ recipientAddress.text = <<>>
       THEN DecodeCatch(uri, Error("recipient address not found"))
       ELSE IF ~amount.found \/ amount.text = <<>> THEN DecodeCatch(uri, Error("amount not found"))
       ELSE Return([scheme |-> schemeMatch.text,
                    contractAddress |-> CapturedAddress(contractMatch.text),
                    chainId |-> ParseInt(chainIdMatch.text),
                    functionName |-> functionMatch.text,
                    recipientAddress |-> CapturedAddress(recipientAddress.text),
                    amount |-> amount.text])

(***************************************************************************)
(* The validator (src/src/validator.ts).  Options are a record of five     *)
(* JavaScript values; an option that is not given is Undefined.  The       *)
(* result's errors are message tags in the order they were pushed, its     *)
(* warnings the warning codes in that order.                               *)
(***************************************************************************)
Null == [t |-> "null"]
IsNullish(v) == v = Undefined \/ v = Null
\* !v of an optional string: undefined, null and "" are falsy
IsFalsy(v) == IsNullish(v) \/ v = Str(<<>>)
IsZeroNum(v) == v.kind = "finite" /\ v.s = <<>>
IsNegative(v) == v.neg /\ ~IsZeroNum(v)
\* |a| < |b| for numbers that are not NaN
MagLess(a, b) ==
    IF a.kind = "Infinity" THEN FALSE
    ELSE IF b.kind = "Infinity" THEN TRUE
    ELSE IF b.s = <<>> THEN FALSE
    ELSE IF a.s = <<>> THEN TRUE
    ELSE IF a.n # b.n THEN a.n < b.n
    ELSE FracLess(a.s, b.s)
\* a < b of two numbers: false when either is NaN
Less(a, b) ==
    /\ ~IsNaN(a) /\ ~IsNaN(b)
    /\ \/ IsNegative(a) /\ ~IsNegative(b)
       \/ ~IsNegative(a) /\ ~IsNegative(b) /\ MagLess(a, b)
       \/ IsNegative(a) /\ IsNegative(b) /\ MagLess(b, a)
\* a <= b: a < b or a == b (zero equals minus zero)
LessEq(a, b) ==
    /\ ~IsNaN(a) /\ ~IsNaN(b)
    /\ (Less(a, b) \/ a = b \/ (IsZeroNum(a) /\ IsZeroNum(b)))
MAX_SAFE_AMOUNT == Num(FALSE, <<"1">>, 16)
LARGE_AMOUNT_LIMIT == Num(FALSE, <<"1">>, 7)
One == Num(FALSE, <<"1">>, 1)

ChainConfig(chainId, jpycAddress) == [chainId |-> chainId, jpycAddress |-> jpycAddress]
JPYC_TOKEN == Str(Chars("0xe7c3d8c9a439fede00d2600032d5db0be71c3c29"))
SupportedNetworks == {Chars("ethereum"), Chars("polygon"), Chars("avalanche")}
\* names every object inherits from Object.prototype
ObjectPrototypeKeys ==
    {Chars("constructor"), Chars("toString"), Chars("valueOf"), Chars("hasOwnProperty"), Chars("__proto__")}
NoConfig == [missing |-> TRUE]
\* CHAIN_CONFIGS[network]: an own entry, an inherited member (truthy, without chainId or
\* jpycAddress), or undefined
CHAIN_CONFIGS(network) ==
    IF network = Chars("ethereum") THEN ChainConfig(Num(FALSE, <<"1">>, 1), JPYC_TOKEN)
    ELSE IF network = Chars("polygon") THEN ChainConfig(Num(FALSE, Chars("137"), 3), JPYC_TOKEN)
    ELSE IF network = Chars("avalanche") THEN ChainConfig(Num(FALSE, Chars("43114"), 5), JPYC_TOKEN)
    ELSE IF network \in ObjectPrototypeKeys THEN ChainConfig(Undefined, Undefined)
    ELSE NoConfig

\* lines 15-21
MerchantErrors(options) ==
    IF IsFalsy(options.merchantAddress) THEN <<"merchantAddress is required">>
    ELSE IF ~isValidAddressFormat(options.merchantAddress).value THEN <<"invalid merchant address format">>
    ELSE <<>>
\* lines 27-28
AmountNum(amount) == IF amount.t = "string" THEN parseFloat(amount.s) ELSE amount
AmountMissing(amount) == IsNullish(amount) \/ amount = Str(<<>>)
\* lines 24-38
AmountErrors(options) ==
    IF AmountMissing(options.amount) THEN <<"amount is required">>
    ELSE IF IsNaN(AmountNum(options.amount)) THEN <<"invalid amount format">>
    ELSE IF LessEq(AmountNum(options.amount), Zero) THEN <<"amount must be positive">>
    ELSE IF ~IsFinite(AmountNum(options.amount)) THEN <<"amount must be finite">>
    ELSE IF Less(MAX_SAFE_AMOUNT, AmountNum(options.amount)) THEN <<"amount is too large">>
    ELSE <<>>
\* lines 41-46
SmallAmountWarning(amountNum) ==
    IF Less(amountNum, One) /\ Less(Zero, amountNum) THEN <<"SMALL_AMOUNT">> ELSE <<>>
\* lines 49-54
LargeAmountWarning(amountNum) ==
    IF Less(LARGE_AMOUNT_LIMIT, amountNum) THEN <<"LARGE_AMOUNT">> ELSE <<>>
AmountWarnings(options) ==
    IF AmountMissing(options.amount) THEN <<>>
    ELSE SmallAmountWarning(AmountNum(options.amount)) \o LargeAmountWarning(AmountNum(options.amount))
\* lines 58-65
NetworkErrors(options) ==
    IF options.network # Undefined /\ CHAIN_CONFIGS(options.network.s) = NoConfig
    THEN <<"unsupported network">> ELSE <<>>
\* lines 68-81
ContractErrors(options) ==
    IF options.jpycContractAddress # Undefined /\ ~isValidAddressFormat(options.jpycContractAddress).value
    THEN <<"invalid contract address format">> ELSE <<>>
\* a warning for every contract address that is provided, well-formed or not
ContractWarnings_Always(options) ==
    IF options.jpycContractAddress # Undefined THEN <<"CUSTOM_CONTRACT">> ELSE <<>>
ContractWarnings(options) ==
    IF options.jpycContractAddress # Undefined /\ isValidAddressFormat(options.jpycContractAddress).value
    THEN <<"CUSTOM_CONTRACT">> ELSE <<>>
\* lines 85-87
DecimalsRangeErrors(options) ==
    IF InvalidDecimals(options.decimals) THEN <<"decimals must be an integer from 0 to 18">> ELSE <<>>
\* a pairing rule that lets the canonical 18 pass
DecimalsPairingErrors_Not18(options) ==
    IF IsFalsy(options.jpycContractAddress) /\ options.decimals # Rat(18, 1)
    THEN <<"decimals only together with jpycContractAddress">> ELSE <<>>
\* lines 90-92
DecimalsPairingErrors(options) ==
    IF IsFalsy(options.jpycContractAddress) THEN <<"decimals only together with jpycContractAddress">> ELSE <<>>
\* lines 84-101
DecimalsErrors(options) ==
    IF options.decimals = Undefined THEN <<>>
    ELSE DecimalsRangeErrors(options) \o DecimalsPairingErrors(options)
DecimalsWarnings(options) ==
    IF options.decimals # Undefined /\ options.decimals # Rat(18, 1) THEN <<"CUSTOM_DECIMALS">> ELSE <<>>
\* a verdict that warnings spoil as well
ValidOf_NoWarnings(errors, warnings) == errors = <<>> /\ warnings = <<>>
\* errors.length === 0
ValidOf(errors, warnings) == errors = <<>>
\* a validation that stops at the first field with a defect
ErrorsOf_FirstOnly(options) ==
    IF MerchantErrors(options) # <<>> THEN MerchantErrors(options)
    ELSE IF AmountErrors(options) # <<>> THEN AmountErrors(options)
    ELSE IF NetworkErrors(options) # <<>> THEN NetworkErrors(options)
    ELSE IF ContractErrors(options) # <<>> THEN ContractErrors(options)
    ELSE DecimalsErrors(options)
\* lines 11-101: the errors and the warnings in the order they are pushed
ErrorsOf(options) ==
    MerchantErrors(options) \o AmountErrors(options) \o NetworkErrors(options)
    \o ContractErrors(options) \o DecimalsErrors(options)
WarningsOf(options) ==
    AmountWarnings(options) \o ContractWarnings(options) \o DecimalsWarnings(options)
validateGenerateOptions(options) ==
    Only({[valid |-> ValidOf(errors, warnings), errors |-> errors, warnings |-> warnings] :
            errors \in {ErrorsOf(options)}, warnings \in {WarningsOf(options)}})

(***************************************************************************)
(* The generator (src/src/uri-generator.ts).  Its outcome comes with the   *)
(* list of the functions it invoked, in order.                             *)
(***************************************************************************)
\* another default network
DEFAULT_NETWORK_Ethereum == Chars("ethereum")
DEFAULT_NETWORK == Chars("polygon")
\* a ?? b
Coalesce(a, b) == IF IsNullish(a) THEN b ELSE a
\* the digits of the amount without its point
AmountToString_Digits(amount) == amount.s
\* options.amount.toString()
AmountToString(amount) == IF amount.t = "string" THEN amount.s ELSE NumberToString(amount)
Invoked(out, invoked) == [out |-> out, invoked |-> invoked]
\* lines 43-52
PaymentURIResult(options, validation, network, chainConfig, jpycAddress, decimals, amountWei, uri) ==
    [uri |-> uri,
     chainId |-> chainConfig.chainId,
     network |-> network.s,
     jpycContractAddress |-> jpycAddress.s,
     amountWei |-> amountWei,
     amountJPY |-> AmountToString(options.amount),
     decimals |-> decimals,
     warnings |-> validation.warnings]
\* lines 41-52
GenerateEncode(options, validation, network, chainConfig, jpycAddress, decimals, amountWei) ==
    IF Threw(amountWei) THEN Invoked(amountWei, <<"validateGenerateOptions", "jpyToWei">>)
    ELSE Only({IF Threw(uri)
               THEN Invoked(uri, <<"validateGenerateOptions", "jpyToWei", "encodeEIP681">>)
               ELSE Invoked(Return(PaymentURIResult(options, validation, network, chainConfig, jpycAddress,
                                                    decimals, amountWei.value, uri.value)),
                            <<"validateGenerateOptions", "jpyToWei", "encodeEIP681">>) :
               uri \in {encodeEIP681(jpycAddress, options.merchantAddress, amountWei.value,
                                     chainConfig.chainId)}})
\* lines 34-38
GenerateConvert(options, validation, network, chainConfig) ==
    Only({Only({GenerateEncode(options, validation, network, chainConfig, jpycAddress, decimals, amountWei) :
                  amountWei \in {jpyToWei(options.amount, decimals)}}) :
            jpycAddress \in {Coalesce(options.jpycContractAddress, chainConfig.jpycAddress)},
            decimals \in {Coalesce(options.decimals, Rat(JPYC_DECIMALS, 1))}})
\* lines 25-32
GenerateNetwork(options, validation) ==
    Only({Only({IF chainConfig = NoConfig
                THEN Invoked(Throw(JPYCPaymentError("unsupported network", "INVALID_NETWORK", NoDetails)),
                             <<"validateGenerateOptions">>)
                ELSE GenerateConvert(options, validation, network, chainConfig) :
                  chainConfig \in {CHAIN_CONFIGS(network.s)}}) :
            network \in {Coalesce(options.network, Str(DEFAULT_NETWORK))}})
\* lines 13-53
generatePaymentURI(options) ==
    Only({IF ~validation.valid
          THEN Invoked(Throw(JPYCPaymentError("validation failed", "VALIDATION_FAILED",
                                               [errors |-> validation.errors])),
                       <<"validateGenerateOptions">>)
          ELSE GenerateNetwork(options, validation) :
            validation \in {validateGenerateOptions(options)}})

(***************************************************************************)
(* Calls of the converter: one call from the idle state, and weiToJpy      *)
(* applied to what jpyToWei returned (the round trip of the integration    *)
(* tests).                                                                 *)
(***************************************************************************)
NoCall == [fn |-> "none"]
Idle == call = NoCall

AmountAlphabet == {"0", "1", "5", ".", "-", "a"}
\* 10^309, a decimal string beyond the range of a double
HugeAmount == <<"1">> \o Repeat("0", 309)
SpecialAmounts ==
    {Chars("Infinity"), Chars("1e999"), Chars("1e5"), Chars("0x1"), Chars(" 5"), Chars("+5"),
     Chars("0.123456789012345678901"), Chars("123.456789"), Chars("100.50"), Chars("0.05"),
     Chars("1.2.3"), Chars("abc"), Chars("1000000000000000"), HugeAmount}
Mantissas == {Chars("1"), Chars("5"), Chars("15"), Chars("123")}
NumberAmounts ==
    {Num(FALSE, m, n) : m \in Mantissas, n \in (0 - MaxNumShift)..3}
    \cup {Num(FALSE, <<"1">>, 22), Num(TRUE, <<"1">>, 1), Zero, Infinity(FALSE), Infinity(TRUE), NaN}
AmountInputs ==
    {Str(a) : a \in StringsUpTo(AmountAlphabet, MaxAmountLen) \cup SpecialAmounts} \cup NumberAmounts
DecimalsInputs == {Rat(n, 1) : n \in -1..19} \cup {Rat(3, 2), Rat(37, 2)}
WeiInputs ==
    StringsUpTo({"0", "1", "5"}, MaxWeiLen)
    \cup {Chars("1230000000000000000"), Chars("100000000000000000000"), Chars("-15"), Chars("abc"), Chars("1.5")}

CallJpyToWei ==
    /\ Idle
    /\ \E amount \in AmountInputs, decimals \in DecimalsInputs :
          call' = [fn |-> "jpyToWei", amount |-> amount, decimals |-> decimals,
                   out |-> jpyToWei(amount, decimals)]
    /\ prev' = NoCall

CallWeiToJpy ==
    /\ Idle
    /\ \E weiAmount \in WeiInputs, decimals \in DecimalsInputs :
          call' = [fn |-> "weiToJpy", weiAmount |-> weiAmount, decimals |-> decimals,
                   out |-> weiToJpy(weiAmount, decimals)]
    /\ prev' = NoCall

\* weiToJpy(jpyToWei(A, p), p)
CallWeiToJpyOnResult ==
    /\ call.fn = "jpyToWei"
    /\ Returned(call.out)
    /\ call' = [fn |-> "weiToJpy", weiAmount |-> call.out.value, decimals |-> call.decimals,
                out |-> weiToJpy(call.out.value, call.decimals)]
    /\ prev' = call

Init == call = NoCall /\ prev = NoCall
NextConv == CallJpyToWei \/ CallWeiToJpy \/ CallWeiToJpyOnResult
SpecConv == Init /\ [][NextConv]_vars

(***************************************************************************)
(* Calls of the checksum engine: one call from the idle state, and         *)
(* toChecksumAddress applied again to its own result or to the same        *)
(* address written in another case.                                        *)
(***************************************************************************)
MaxCaseFlips == 6
WithChar(s, i, c) == [k \in 1..Len(s) |-> IF k = i THEN c ELSE s[k]]
\* writings of one 40-digit base: lower case, upper case, and one letter flipped in either
CaseVariants(base) ==
    LET lower == base
        upper == ToUpperCase(base)
    IN {lower, upper}
       \cup {WithChar(lower, i, ToUpperChar(lower[i])) : i \in 1..MaxCaseFlips}
       \cup {WithChar(upper, i, ToLowerChar(upper[i])) : i \in 1..MaxCaseFlips}
ValidAddresses == {<<"0", "x">> \o v : v \in UNION {CaseVariants(base) : base \in AddressBases}}
InvalidAddresses ==
    {<<>>, Chars("invalid"), Chars("0x"), Chars("0x123"), Chars("0xZZ"), Chars("undefined")}
    \cup UNION {{base,                                             \* no prefix
                 <<"0", "X">> \o base,                             \* upper-case prefix
                 <<"x", "0">> \o SubSeq(base, 1, 39) \o <<"g">>,   \* no prefix and not hexadecimal
                 <<"0", "x">> \o SubSeq(base, 1, 39),              \* too short
                 <<"0", "x">> \o base \o <<"0">>,                  \* too long
                 <<"0", "x">> \o base \o <<"g">>,                  \* too long and not hexadecimal
                 <<" ">> \o <<"0", "x">> \o SubSeq(base, 1, 39)}   \* 42 characters, no prefix
                \cup {<<"0", "x">> \o WithChar(base, i, "g") : i \in 1..MaxCaseFlips}
                \cup {<<"0", "x">> \o WithChar(base, 41 - i, " ") : i \in 1..MaxCaseFlips}
                : base \in AddressBases}
AddressInputs == {Str(a) : a \in ValidAddresses \cup InvalidAddresses} \cup {Undefined}

CallToChecksumAddress ==
    /\ Idle
    /\ \E address \in AddressInputs :
          call' = [fn |-> "toChecksumAddress", address |-> address, out |-> toChecksumAddress(address)]
    /\ prev' = NoCall

CallIsValidAddressFormat ==
    /\ Idle
    /\ \E address \in AddressInputs :
          call' = [fn |-> "isValidAddressFormat", address |-> address, out |-> isValidAddressFormat(address)]
    /\ prev' = NoCall

\* toChecksumAddress(toChecksumAddress(a))
CallToChecksumOnResult ==
    /\ call.fn = "toChecksumAddress"
    /\ prev = NoCall
    /\ Returned(call.out)
    /\ call' = [fn |-> "toChecksumAddress", address |-> Str(call.out.value),
                out |-> toChecksumAddress(Str(call.out.value))]
    /\ prev' = call

\* toChecksumAddress of the address of the last call in another case
CallToChecksumOnVariant ==
    /\ call.fn = "toChecksumAddress"
    /\ prev = NoCall
    /\ Returned(call.out)
    /\ \E variant \in ValidAddresses :
          /\ Str(variant) # call.address
          /\ ToLowerCase(variant) = ToLowerCase(call.address.s)
          /\ call' = [fn |-> "toChecksumAddress", address |-> Str(variant),
                      out |-> toChecksumAddress(Str(variant))]
    /\ prev' = call

CallIsValidChecksumAddress ==
    /\ Idle
    /\ \E address \in AddressInputs :
          call' = [fn |-> "isValidChecksumAddress", address |-> address, out |-> isValidChecksumAddress(address)]
    /\ prev' = NoCall

\* isValidChecksumAddress(toChecksumAddress(a))
CallIsValidChecksumOnResult ==
    /\ call.fn = "toChecksumAddress"
    /\ prev = NoCall
    /\ Returned(call.out)
    /\ call' = [fn |-> "isValidChecksumAddress", address |-> Str(call.out.value),
                out |-> isValidChecksumAddress(Str(call.out.value))]
    /\ prev' = call

NextAddr == CallToChecksumAddress \/ CallIsValidAddressFormat \/ CallToChecksumOnResult \/ CallToChecksumOnVariant
SpecAddr == Init /\ [][NextAddr]_vars
NextValidChecksum == CallToChecksumAddress \/ CallIsValidChecksumAddress \/ CallIsValidChecksumOnResult
SpecValidChecksum == Init /\ [][NextValidChecksum]_vars

(***************************************************************************)
(* Calls of the identifier codec: one call from the idle state, and        *)
(* decodeEIP681 applied to what encodeEIP681 returned.                     *)
(***************************************************************************)
JPYC_ADDRESS == Chars("0xe7c3d8c9a439fede00d2600032d5db0be71c3c29")
CodecAddresses ==
    {Str(JPYC_ADDRESS),
     Str(Chars("0xABCDEFABCDEFABCDEFABCDEFABCDEFABCDEFABCD")),
     Str(Chars("0x1234567890123456789012345678901234567890")),
     Str(Chars("invalid")), Str(Chars("0x123")), Undefined}
CodecAmounts ==
    StringsUpTo({"0", "1", "5"}, MaxWeiLen)
    \cup {Chars("1000000000000000000"), Chars("100000000000000000000"), Chars("007")}
ChainIds ==
    {Num(FALSE, <<"1">>, 1), Num(FALSE, Chars("137"), 3), Num(FALSE, Chars("43114"), 5), Zero,
     Num(FALSE, <<"1">>, 22), Num(FALSE, Chars("15"), 1), Num(TRUE, <<"1">>, 1)}

\* identifiers put together from well-formed and malformed pieces
SchemePieces == {EIP681_SCHEME, <<>>, Chars("e")}
ContractPieces == {JPYC_ADDRESS, <<>>, Chars("c"), Chars("0xaB")}
ChainPieces == {Chars("137"), <<>>, Chars("1a"), Chars("007")}
FunctionPieces == {TRANSFER_FUNCTION, <<>>, Chars("f")}
QueryPieces ==
    {Chars("address=0xR&uint256=5"), Chars("uint256=5&address=0xR"), Chars("address=0xR"), Chars("uint256=5"),
     <<>>, Chars("address=&uint256=5"), Chars("address=0xR&uint256="), Chars("address=x:y@z&uint256=1"),
     Chars("address=a@5/b?c&uint256=1"), Chars("address=0xR&uint256=5&uint256=6"),
     Chars("x=/y?address=0xR&uint256=5"), Chars("address&uint256=5")}
BuiltURIs ==
    {sc \o <<":">> \o c \o <<"@">> \o ch \o <<"/">> \o f \o <<"?">> \o q :
        sc \in SchemePieces, c \in ContractPieces, ch \in ChainPieces, f \in FunctionPieces, q \in QueryPieces}
OddURIs ==
    {<<>>, Chars("invalid-uri"), Chars("ethereum:0xC@137/transfer"), Chars("ethereum:0xC@137?address=0xR&uint256=5"),
     Chars("ethereum:0xC/transfer?address=0xR&uint256=5"), Chars("ethereum0xC@137/transfer?address=0xR&uint256=5"),
     Chars("http://example.com/?address=0xR&uint256=5")}
UriInputs == {Str(u) : u \in BuiltURIs \cup OddURIs} \cup {Undefined}

CallEncodeEIP681 ==
    /\ Idle
    /\ \E contractAddress \in CodecAddresses, recipientAddress \in CodecAddresses,
          amount \in CodecAmounts, chainId \in ChainIds :
          call' = [fn |-> "encodeEIP681", contractAddress |-> contractAddress,
                   recipientAddress |-> recipientAddress, amount |-> amount, chainId |-> chainId,
                   out |-> encodeEIP681(contractAddress, recipientAddress, amount, chainId)]
    /\ prev' = NoCall

CallDecodeEIP681 ==
    /\ Idle
    /\ \E uri \in UriInputs :
          call' = [fn |-> "decodeEIP681", uri |-> uri, out |-> decodeEIP681(uri)]
    /\ prev' = NoCall

\* decodeEIP681(encodeEIP681(c, r, m, id))
CallDecodeOnResult ==
    /\ call.fn = "encodeEIP681"
    /\ Returned(call.out)
    /\ call' = [fn |-> "decodeEIP681", uri |-> Str(call.out.value), out |-> decodeEIP681(Str(call.out.value))]
    /\ prev' = call

NextCodec == CallEncodeEIP681 \/ CallDecodeEIP681 \/ CallDecodeOnResult
SpecCodec == Init /\ [][NextCodec]_vars

(***************************************************************************)
(* Calls of the validator and of the generator, each on options put        *)
(* together from given, missing and malformed values.                      *)
(***************************************************************************)
MerchantInputs ==
    {Undefined, Str(Chars("invalid")), Str(Chars("0x1234567890123456789012345678901234567890"))}
OptionAmountNumbers ==
    {Zero, Num(TRUE, <<"1">>, 4), Num(FALSE, <<"5">>, 0), Num(FALSE, <<"1">>, -6), One, Num(FALSE, <<"1">>, 4),
     LARGE_AMOUNT_LIMIT, Num(FALSE, Chars("1000001"), 7), MAX_SAFE_AMOUNT,
     Num(FALSE, Chars("1000000000000001"), 16), Infinity(FALSE), NaN}
OptionAmountStrings ==
    {<<>>, Chars("100"), Chars("0.5"), Chars("-5"), Chars("abc"), Chars("5a"), Chars("1e3"),
     Chars("1000000.5"), Chars("1000000000000000.01"), Chars("0.99999999999999999"),
     Chars("1000000.00000000001"), Chars("1e-400")}
OptionAmounts == {Undefined, Null} \cup OptionAmountNumbers \cup {Str(a) : a \in OptionAmountStrings}
NetworkInputs ==
    {Undefined} \cup {Str(n) : n \in SupportedNetworks \cup {Chars("bitcoin"), Chars("constructor")}}
ContractInputs ==
    {Undefined, Str(<<>>), Str(Chars("0x123")), Str(Chars("0xABCDEFABCDEFABCDEFABCDEFABCDEFABCDEFABCD"))}
OptionDecimals == {Undefined, Rat(18, 1), Rat(6, 1), Rat(0, 1), Rat(-1, 1), Rat(19, 1), Rat(3, 2)}
Options(merchantAddress, amount, network, jpycContractAddress, decimals) ==
    [merchantAddress |-> merchantAddress, amount |-> amount, network |-> network,
     jpycContractAddress |-> jpycContractAddress, decimals |-> decimals]
ValidateCall(options) ==
    [fn |-> "validateGenerateOptions", options |-> options,
     out |-> Return(validateGenerateOptions(options)), invoked |-> <<>>]
GenerateCall(options) ==
    Only({[fn |-> "generatePaymentURI", options |-> options, out |-> g.out, invoked |-> g.invoked] :
            g \in {generatePaymentURI(options)}})

CallValidateGenerateOptions ==
    /\ Idle
    /\ \E merchantAddress \in MerchantInputs, amount \in OptionAmounts, network \in NetworkInputs,
          jpycContractAddress \in ContractInputs, decimals \in OptionDecimals :
          call' = ValidateCall(Options(merchantAddress, amount, network, jpycContractAddress, decimals))
    /\ prev' = NoCall

CallGeneratePaymentURI ==
    /\ Idle
    /\ \E merchantAddress \in MerchantInputs, amount \in OptionAmounts, network \in NetworkInputs,
          jpycContractAddress \in ContractInputs, decimals \in OptionDecimals :
          call' = GenerateCall(Options(merchantAddress, amount, network, jpycContractAddress, decimals))
    /\ prev' = NoCall

NextGen == CallValidateGenerateOptions \/ CallGeneratePaymentURI
SpecGen == Init /\ [][NextGen]_vars

(***************************************************************************)
(* Calls from several callers against one process.  None of the functions  *)
(* awaits anything, so a call runs to its end before the next one starts   *)
(* and the interleavings are the orders of whole calls.  The process holds *)
(* CHAIN_CONFIGS, each caller's options object and the arrays created so   *)
(* far; a call record keeps the state of the process when it returned.     *)
(***************************************************************************)
Callers == {1, 2}
MaxValidations == 2
CallerOptions ==
    [caller \in Callers |->
        IF caller = 1
        THEN Options(Str(Chars("0x1234567890123456789012345678901234567890")), Num(FALSE, <<"5">>, 0),
                     Undefined, Str(Chars("0xABCDEFABCDEFABCDEFABCDEFABCDEFABCDEFABCD")), Rat(6, 1))
        ELSE Options(Str(Chars("invalid")), Str(Chars("-5")), Str(Chars("bitcoin")), Undefined, Undefined)]
InitialProcess ==
    [CHAIN_CONFIGS |-> [network \in SupportedNetworks |-> CHAIN_CONFIGS(network)],
     options |-> CallerOptions,
     arrays |-> <<>>]
Process == IF call = NoCall THEN InitialProcess ELSE call.process
\* one module-level array handed out again and again
NewArray_Reused(arrays) == IF arrays = <<>> THEN <<<<>>>> ELSE arrays
\* const errors: string[] = [], const warnings: Warning[] = []: a new empty array
NewArray(arrays) == Append(arrays, <<>>)
\* errors.push(...), warnings.push(...)
Push(arrays, ref, items) == [arrays EXCEPT ![ref] = @ \o items]
PushFindings(arrays, errors, warnings, options) ==
    [arrays |-> Push(Push(arrays, errors, ErrorsOf(options)), warnings, WarningsOf(options)),
     errors |-> errors, warnings |-> warnings]
\* the two arrays of one validation, created and then filled
ValidationLists(arrays, options) ==
    Only({Only({PushFindings(withWarnings, Len(withErrors), Len(withWarnings), options) :
                  withWarnings \in {NewArray(withErrors)}}) :
            withErrors \in {NewArray(arrays)}})
\* return { valid: errors.length === 0, errors, warnings }
ValidationResult(lists) ==
    [valid |-> ValidOf(lists.arrays[lists.errors], lists.arrays[lists.warnings]),
     errors |-> lists.arrays[lists.errors], warnings |-> lists.arrays[lists.warnings]]
ValidateIn(caller, process) ==
    Only({[fn |-> "validateGenerateOptions", caller |-> caller, options |-> process.options[caller],
           errors |-> lists.errors, warnings |-> lists.warnings, before |-> Len(process.arrays),
           out |-> Return(ValidationResult(lists)),
           process |-> [process EXCEPT !.arrays = lists.arrays]] :
            lists \in {ValidationLists(process.arrays, process.options[caller])}})
\* the result hands on validation.warnings, the array of its own validation
GenerateIn(caller, process) ==
    Only({[fn |-> "generatePaymentURI", caller |-> caller, options |-> process.options[caller],
           errors |-> lists.errors, warnings |-> lists.warnings, before |-> Len(process.arrays),
           out |-> IF Returned(g.out)
                   THEN Return([g.out.value EXCEPT !.warnings = lists.arrays[lists.warnings]])
                   ELSE g.out,
           process |-> [process EXCEPT !.arrays = lists.arrays]] :
            lists \in {ValidationLists(process.arrays, process.options[caller])},
            g \in {generatePaymentURI(process.options[caller])}})
\* a call that creates no array and reads nothing of the process
PlainCall(fn, caller, args, out, process) ==
    [fn |-> fn, caller |-> caller, args |-> args, before |-> Len(process.arrays), out |-> out,
     process |-> process]
SharedAmounts == {Str(Chars("0.5")), Str(Chars("-5"))}
SharedWeis == {Chars("1500000"), Chars("abc")}
SharedAddresses == {Str(JPYC_ADDRESS), Str(Chars("0x123"))}
SharedURIs ==
    {Str(Chars("ethereum:0xaB@137/transfer?address=0xR&uint256=5")), Str(Chars("ethereum:137"))}

SharedValidateGenerateOptions ==
    /\ Len(Process.arrays) < 2 * MaxValidations
    /\ \E caller \in Callers : call' = ValidateIn(caller, Process)
    /\ prev' = call

SharedGeneratePaymentURI ==
    /\ Len(Process.arrays) < 2 * MaxValidations
    /\ \E caller \in Callers : call' = GenerateIn(caller, Process)
    /\ prev' = call

SharedJpyToWei ==
    /\ \E caller \in Callers, amount \in SharedAmounts :
          call' = PlainCall("jpyToWei", caller, <<amount, Rat(6, 1)>>, jpyToWei(amount, Rat(6, 1)), Process)
    /\ prev' = call

SharedWeiToJpy ==
    /\ \E caller \in Callers, weiAmount \in SharedWeis :
          call' = PlainCall("weiToJpy", caller, <<Str(weiAmount), Rat(6, 1)>>, weiToJpy(weiAmount, Rat(6, 1)), Process)
    /\ prev' = call

SharedEncodeEIP681 ==
    /\ \E caller \in Callers, recipientAddress \in SharedAddresses :
          call' = PlainCall("encodeEIP681", caller, <<Str(JPYC_ADDRESS), recipientAddress>>,
                            encodeEIP681(Str(JPYC_ADDRESS), recipientAddress, Chars("5"),
                                         Num(FALSE, Chars("137"), 3)), Process)
    /\ prev' = call

SharedDecodeEIP681 ==
    /\ \E caller \in Callers, uri \in SharedURIs :
          call' = PlainCall("decodeEIP681", caller, <<uri>>, decodeEIP681(uri), Process)
    /\ prev' = call

SharedToChecksumAddress ==
    /\ \E caller \in Callers, address \in SharedAddresses :
          call' = PlainCall("toChecksumAddress", caller, <<address>>, toChecksumAddress(address), Process)
    /\ prev' = call

NextShared ==
    \/ SharedValidateGenerateOptions \/ SharedGeneratePaymentURI \/ SharedJpyToWei \/ SharedWeiToJpy
    \/ SharedEncodeEIP681 \/ SharedDecodeEIP681 \/ SharedToChecksumAddress
SpecShared == Init /\ [][NextShared]_vars

(***************************************************************************)
(* Properties of the converter.  Decimal strings and their values are      *)
(* described here without the converter's own operators.                   *)
(***************************************************************************)
\* digits with at most one "." and at least one digit
IsDecimalString(A) ==
    /\ \A i \in 1..Len(A) : IsDigit(A[i]) \/ A[i] = "."
    /\ \E i \in 1..Len(A) : IsDigit(A[i])
    /\ Cardinality({i \in 1..Len(A) : A[i] = "."}) <= 1
PointAt(A) == IF \E i \in 1..Len(A) : A[i] = "." THEN CHOOSE i \in 1..Len(A) : A[i] = "." ELSE Len(A) + 1
IntDigits(A) == SubSeq(A, 1, PointAt(A) - 1)
FracDigits(A) == SubSeq(A, PointAt(A) + 1, Len(A))
\* a digit string as a numeral: no leading zeros, "0" for zero
Numeral(d) == IF StripLeadingZeros(d) = <<>> THEN <<"0">> ELSE StripLeadingZeros(d)
Canonical(A) ==
    IF StripTrailingZeros(FracDigits(A)) = <<>> THEN Numeral(IntDigits(A))
    ELSE Numeral(IntDigits(A)) \o <<".">> \o StripTrailingZeros(FracDigits(A))
\* floor(A * 10^p) of the decimal with integer digits ip and fraction digits fp
FloorScaled(ip, fp, p) ==
    Numeral(ip \o [i \in 1..p |-> IF i <= Len(fp) THEN fp[i] ELSE "0"])
\* the decimal expansion of the finite number 0.s * 10^n: its integer and fraction digits
NumIntDigits(v) == [i \in 1..Max(v.n, 0) |-> IF i <= Len(v.s) THEN v.s[i] ELSE "0"]
NumFracDigits(v) == [i \in 1..Max(Len(v.s) - v.n, 0) |-> IF i + v.n >= 1 THEN v.s[i + v.n] ELSE "0"]
\* the amount is below 10^308 (larger ones are beyond the range of a double)
BelowDoubleRange(ip) == Len(StripLeadingZeros(ip)) <= 308
PrecisionOf(decimals) == decimals.num \div decimals.den
ValidPrecision(decimals) == decimals.den = 1 /\ decimals.num \in 0..18

\* the round trip weiToJpy(jpyToWei(A, p), p) of a decimal string with at most p fraction digits
RoundTripDomain(c) ==
    /\ c.fn = "jpyToWei"
    /\ ValidPrecision(c.decimals)
    /\ c.amount.t = "string"
    /\ IsDecimalString(c.amount.s)
    /\ Len(FracDigits(c.amount.s)) <= PrecisionOf(c.decimals)
RoundTripHolds(domain(_)) ==
    /\ (domain(call) => Returned(call.out))
    /\ (call.fn = "weiToJpy" /\ domain(prev)
           => Returned(call.out) /\ call.out.value = Canonical(prev.amount.s))
RoundTripDomainBelow(c) == RoundTripDomain(c) /\ BelowDoubleRange(IntDigits(c.amount.s))

IsDecimalAmount(amount) ==
    IF amount.t = "string" THEN IsDecimalString(amount.s) /\ BelowDoubleRange(IntDigits(amount.s))
    ELSE amount.t = "number" /\ amount.kind = "finite" /\ ~amount.neg
FloorOfAmount(amount, p) ==
    IF amount.t = "string" THEN FloorScaled(IntDigits(amount.s), FracDigits(amount.s), p)
    ELSE FloorScaled(NumIntDigits(amount), NumFracDigits(amount), p)
\* C2: for every precision p in 0..18 and every non-negative decimal amount A (here below
\* 10^308), jpyToWei(A, p) returns floor(A * 10^p) as a digit string without leading zeros;
\* digits beyond the p-th are discarded, never rounded and never an error.
C2_FloorOfAmount ==
    call.fn = "jpyToWei" /\ ValidPrecision(call.decimals) /\ IsDecimalAmount(call.amount)
       => call.out = Return(FloorOfAmount(call.amount, PrecisionOf(call.decimals)))

\* the string form of an amount, as a caller sees it
StringForm(amount) ==
    IF amount.t = "string" THEN amount.s
    ELSE IF amount.kind = "NaN" THEN Chars("NaN")
    ELSE IF amount.kind = "Infinity" THEN (IF amount.neg THEN <<"-">> ELSE <<>>) \o Chars("Infinity")
    ELSE (IF amount.neg THEN <<"-">> ELSE <<>>) \o Canonical(NumIntDigits(amount) \o <<".">> \o NumFracDigits(amount))
NumericChars == Digits \cup {".", "+", "-", "e", "E", " "}
HasNonNumericContent(s) == s = <<>> \/ \E i \in 1..Len(s) : s[i] \notin NumericChars
\* C10: jpyToWei fails with code INVALID_AMOUNT, and returns no minor-unit string, for every
\* amount whose string form starts with "-", contains non-numeric content, or contains more
\* than one ".".
C10_RejectsMalformedAmount ==
    /\ call.fn = "jpyToWei" /\ ValidPrecision(call.decimals)
    /\ \/ StartsWith(StringForm(call.amount), <<"-">>)
       \/ HasNonNumericContent(StringForm(call.amount))
       \/ Cardinality({i \in 1..Len(StringForm(call.amount)) : StringForm(call.amount)[i] = "."}) > 1
    => ThrewCode(call.out, "INVALID_AMOUNT")

(***************************************************************************)
(* Properties of the checksum engine.                                      *)
(***************************************************************************)
LowerLetters == {"a", "b", "c", "d", "e", "f"}
UpperLetters == {"A", "B", "C", "D", "E", "F"}
IsHexChar(c) == c \in Digits \cup LowerLetters \cup UpperLetters
\* "0x" and 40 hexadecimal digits
FormatValid(a) ==
    Len(a) = 42 /\ SubSeq(a, 1, 2) = <<"0", "x">> /\ \A i \in 3..Len(a) : IsHexChar(a[i])
Lowered(c) == IF c \in UpperLetters THEN ToLowerChar(c) ELSE c
Uppered(c) == IF c \in LowerLetters THEN ToUpperChar(c) ELSE c
\* the hex characters of the hash of the lower-cased 40 digits
HashHexOf(a) == bytesToHex(keccak_256([i \in 1..40 |-> Lowered(a[i + 2])]))
NibbleOf(h) == CHOOSE v \in 0..15 : RadixChars[v + 1] = h
IsChecksumCall(c) == c.fn = "toChecksumAddress" /\ c.address.t = "string"

\* C5: for every format-valid address, toChecksumAddress returns "0x" followed by 40
\* characters where character i is the upper-case of the input's lower-cased digit i when the
\* i-th hex character of the hash of the lower-cased 40 digits has value >= 8, and the
\* lower-cased digit otherwise; the output differs from the input only in letter case and
\* the digits 0-9 are never changed.
C5_ChecksumRule ==
    IsChecksumCall(call) /\ FormatValid(call.address.s) =>
       /\ Returned(call.out)
       /\ Len(call.out.value) = 42
       /\ SubSeq(call.out.value, 1, 2) = <<"0", "x">>
       /\ \A h \in {HashHexOf(call.address.s)} : \A i \in 1..40 :
             /\ call.out.value[i + 2] = IF NibbleOf(h[i]) >= 8 THEN Uppered(Lowered(call.address.s[i + 2]))
                                        ELSE Lowered(call.address.s[i + 2])
             /\ Lowered(call.out.value[i + 2]) = Lowered(call.address.s[i + 2])
             /\ (call.address.s[i + 2] \in Digits => call.out.value[i + 2] = call.address.s[i + 2])
\* the token address of the repository's tests, written in lower case, gets its published
\* checksum: letters are raised at some places and kept at others
C5_Witness ==
    /\ IsChecksumCall(call)
    /\ call.address.s = Chars("0xe7c3d8c9a439fede00d2600032d5db0be71c3c29")
    /\ call.out = Return(Chars("0xE7C3D8C9a439feDe00D2600032D5dB0Be71C3c29"))

\* C6: toChecksumAddress returns the same output for every case variant of the same 40 hex
\* digits, and toChecksumAddress(toChecksumAddress(X)) = toChecksumAddress(X) for every
\* format-valid X.
C6_CaseInvariantIdempotent ==
    IsChecksumCall(call) /\ IsChecksumCall(prev) /\ FormatValid(prev.address.s) =>
       /\ ([i \in 1..42 |-> Lowered(call.address.s[i])] = [i \in 1..42 |-> Lowered(prev.address.s[i])]
              => call.out = prev.out)
       /\ (Returned(prev.out) /\ call.address.s = prev.out.value => call.out = prev.out)
\* the second call was given the result of the first: the same 40 digits in another case
\* than the first call's, mixed, and the result is the same again
C6_Witness ==
    /\ IsChecksumCall(call) /\ IsChecksumCall(prev) /\ FormatValid(prev.address.s)
    /\ call.address.s # prev.address.s
    /\ [i \in 1..42 |-> Lowered(call.address.s[i])] = [i \in 1..42 |-> Lowered(prev.address.s[i])]
    /\ call.address.s = prev.out.value
    /\ call.out = prev.out
    /\ \E i \in 3..42 : call.out.value[i] \in UpperLetters
    /\ \E i \in 3..42 : call.out.value[i] \in LowerLetters

\* the first test that an address fails, in the order the claim gives
FirstFailure(a) ==
    IF Len(a) < 2 \/ SubSeq(a, 1, 2) # <<"0", "x">> THEN "address must start with 0x"
    ELSE IF Len(a) # 42 THEN "address must be 42 characters"
    ELSE IF \E i \in 3..Len(a) : ~IsHexChar(a[i]) THEN "address must be hexadecimal"
    ELSE "none"
\* C7: toChecksumAddress fails with code INVALID_ADDRESS exactly when the input does not start
\* with "0x", is not exactly 42 characters long, or contains a non-hex character after the
\* prefix, tested in that order; it succeeds on exactly the strings for which
\* isValidAddressFormat returns true, and isValidAddressFormat never throws.
C7_InvalidAddressExactly ==
    /\ IsChecksumCall(call) =>
          /\ (FirstFailure(call.address.s) # "none"
                 => ThrewCode(call.out, "INVALID_ADDRESS")
                    /\ call.out.error.message = FirstFailure(call.address.s))
          /\ (FirstFailure(call.address.s) = "none" => Returned(call.out))
          /\ (Returned(call.out) <=> isValidAddressFormat(call.address) = Return(TRUE))
    /\ call.fn = "isValidAddressFormat" =>
          /\ Returned(call.out) /\ call.out.value \in BOOLEAN
          /\ (call.address.t = "string" => (call.out.value <=> FirstFailure(call.address.s) = "none"))
\* an address of the right length and prefix with one character that is not hexadecimal is refused
C7_Witness ==
    /\ IsChecksumCall(call)
    /\ Len(call.address.s) = 42 /\ SubSeq(call.address.s, 1, 2) = <<"0", "x">>
    /\ ThrewCode(call.out, "INVALID_ADDRESS")
    /\ call.out.error.message = "address must be hexadecimal"
    /\ isValidAddressFormat(call.address) = Return(FALSE)

\* C23: isValidChecksumAddress(a) returns true exactly when toChecksumAddress(a) succeeds
\* and equals a character for character; where toChecksumAddress fails it returns false,
\* and it never throws.
C23_ValidChecksumExactly ==
    call.fn = "isValidChecksumAddress" =>
       \A checksummed \in {toChecksumAddress(call.address)} :
           /\ Returned(call.out) /\ call.out.value \in BOOLEAN
           /\ call.out.value = (Returned(checksummed) /\ checksummed.value = call.address.s)
           /\ Threw(checksummed) => call.out.value = FALSE
\* the checksummed writing of an address, with letters in both cases, is accepted
C23_Witness ==
    /\ call.fn = "isValidChecksumAddress" /\ prev.fn = "toChecksumAddress"
    /\ call.address.s = prev.out.value /\ call.address # prev.address
    /\ \E i \in 3..42 : call.address.s[i] \in UpperLetters
    /\ \E i \in 3..42 : call.address.s[i] \in LowerLetters
    /\ call.out = Return(TRUE)

(***************************************************************************)
(* Properties of the identifier codec.                                     *)
(***************************************************************************)
IsFormatValidArg(a) == a.t = "string" /\ FormatValid(a.s)
\* a chain id: a non-negative integer (zero included), below 10^21 so that it is written in plain digits
IsChainId(id) == id.t = "number" /\ id.kind = "finite" /\ ~id.neg /\ Len(id.s) <= id.n /\ id.n <= 21
ChainIdText(id) == Numeral(NumIntDigits(id))
\* a minor-unit amount string: decimal digits, at least one
IsMinorUnitString(m) == m # <<>> /\ \A i \in 1..Len(m) : m[i] \in Digits
EncodeDomain(c) ==
    /\ c.fn = "encodeEIP681"
    /\ IsFormatValidArg(c.contractAddress) /\ IsFormatValidArg(c.recipientAddress)
    /\ IsChainId(c.chainId)

\* C3: decodeEIP681(encodeEIP681(c, r, m, id)) succeeds and recovers chainId = id, amount = m
\* as the literal string passed in, contractAddress = toChecksumAddress(c), recipientAddress =
\* toChecksumAddress(r), scheme "ethereum" and functionName "transfer", for every format-valid
\* c and r, every chain id and every minor-unit amount string m.
C3_DecodeOfEncode ==
    /\ EncodeDomain(call) /\ IsMinorUnitString(call.amount) => Returned(call.out)
    /\ call.fn = "decodeEIP681" /\ EncodeDomain(prev) /\ IsMinorUnitString(prev.amount) =>
          /\ Returned(call.out)
          /\ call.out.value.chainId = prev.chainId
          /\ call.out.value.amount = prev.amount
          /\ Return(call.out.value.contractAddress) = toChecksumAddress(prev.contractAddress)
          /\ Return(call.out.value.recipientAddress) = toChecksumAddress(prev.recipientAddress)
          /\ call.out.value.scheme = Chars("ethereum")
          /\ call.out.value.functionName = Chars("transfer")
\* an identifier made from two different addresses not written in checksum case and an amount
\* with leading zeros has been decoded
C3_Witness ==
    /\ call.fn = "decodeEIP681" /\ EncodeDomain(prev) /\ IsMinorUnitString(prev.amount)
    /\ Returned(call.out)
    /\ prev.contractAddress # prev.recipientAddress
    /\ call.out.value.contractAddress # prev.contractAddress.s
    /\ call.out.value.amount = Chars("007")
    /\ call.out.value.chainId = Num(FALSE, Chars("137"), 3)

\* C4: for format-valid addresses c and r, encodeEIP681(c, r, m, id) returns exactly
\* "ethereum:" + toChecksumAddress(c) + "@" + id + "/transfer?address=" + toChecksumAddress(r)
\* + "&uint256=" + m, with m unchanged and nothing else.
C4_ExactFormat ==
    EncodeDomain(call) =>
       call.out = Return(Chars("ethereum:") \o toChecksumAddress(call.contractAddress).value \o <<"@">>
                         \o ChainIdText(call.chainId) \o Chars("/transfer?address=")
                         \o toChecksumAddress(call.recipientAddress).value \o Chars("&uint256=")
                         \o call.amount)
\* the identifier of the integration test: the token on chain 137 and one unit of 10^18
C4_Witness ==
    /\ EncodeDomain(call)
    /\ call.contractAddress = Str(JPYC_ADDRESS)
    /\ call.out = Return(Chars("ethereum:0xE7C3D8C9a439feDe00D2600032D5dB0Be71C3c29@137/transfer?address=0x1234567890123456789012345678901234567890&uint256=1000000000000000000"))

\* the fields of an identifier by position: scheme ":" contract "@" chain id "/" function "?" query
After(s, c, from) == IF from = 0 THEN 0 ELSE IndexFrom(s, c, from + 1)
ColonAt(u) == IndexFrom(u, ":", 1)
AtAt(u) == After(u, "@", ColonAt(u))
SlashAt(u) == After(u, "/", AtAt(u))
QuestionAt(u) == After(u, "?", SlashAt(u))
\* the field between two separators is absent or empty
NoField(from, to) == to = 0 \/ to <= from + 1
QueryOf(u) == SubSeq(u, QuestionAt(u) + 1, Len(u))
\* no pair name=value with a value in the query
NoParam(u, name) ==
    \/ QuestionAt(u) = 0
    \/ ~\E k \in 1..Len(Split(QueryOf(u), "&")) :
           /\ StartsWith(Split(QueryOf(u), "&")[k], name \o <<"=">>)
           /\ Len(Split(QueryOf(u), "&")[k]) > Len(name) + 1
SomeFieldMissing(u) ==
    \/ NoField(0, ColonAt(u))
    \/ NoField(ColonAt(u), AtAt(u))
    \/ NoField(AtAt(u), SlashAt(u))
    \/ NoField(SlashAt(u), QuestionAt(u))
    \/ NoParam(u, Chars("address"))
    \/ NoParam(u, Chars("uint256"))
\* C8: decodeEIP681 fails with code ENCODING_FAILED, carrying the original string in its
\* details, whenever any of the six fields (scheme, contract address, chain id, function name,
\* "address" parameter, "uint256" parameter) is absent or empty; it never returns a record in
\* which one of the six fields is missing or empty.
C8_MissingFieldFails ==
    call.fn = "decodeEIP681" /\ call.uri.t = "string" =>
       /\ (SomeFieldMissing(call.uri.s)
              => ThrewCode(call.out, "ENCODING_FAILED") /\ call.out.error.details.uri = call.uri)
       /\ (Returned(call.out)
              => /\ call.out.value.scheme # <<>> /\ call.out.value.contractAddress # <<>>
                 /\ call.out.value.functionName # <<>> /\ call.out.value.recipientAddress # <<>>
                 /\ call.out.value.amount # <<>> /\ call.out.value.chainId.t = "number")

\* C9: when either address given to encodeEIP681 is invalid, the checksum engine's error is
\* thrown again unchanged, with code INVALID_ADDRESS, the contract address being checked
\* before the recipient; only a failure that is not a JPYCPaymentError is wrapped as
\* ENCODING_FAILED, with the original error in details.
C9_AddressErrorsRethrown ==
    call.fn = "encodeEIP681" =>
       LET first == IF Threw(toChecksumAddress(call.contractAddress)) THEN call.contractAddress
                    ELSE call.recipientAddress
           failure == toChecksumAddress(first)
       IN /\ (first.t = "string" /\ ~FormatValid(first.s)
                 => /\ call.out = failure
                    /\ ThrewCode(call.out, "INVALID_ADDRESS")
                    /\ call.out.error.details.address = first.s)
          /\ (ThrewCode(call.out, "ENCODING_FAILED")
                 => /\ Threw(failure) /\ failure.error.name # "JPYCPaymentError"
                    /\ call.out.error.details = [error |-> failure.error])
          /\ (Threw(call.out) => call.out.error.name = "JPYCPaymentError")
\* both addresses are invalid in different ways and the error is the contract address's
C9_Witness ==
    /\ call.fn = "encodeEIP681"
    /\ call.contractAddress = Str(Chars("0x123")) /\ call.recipientAddress = Str(Chars("invalid"))
    /\ call.out = toChecksumAddress(call.contractAddress)
    /\ call.out # toChecksumAddress(call.recipientAddress)
    /\ ThrewCode(call.out, "INVALID_ADDRESS")

(***************************************************************************)
(* Further properties of the converter.                                    *)
(***************************************************************************)
\* decimals is an integer from 0 to 18
IntegerInRange(decimals) == decimals.num % decimals.den = 0 /\ decimals.num \div decimals.den \in 0..18
IsConverterCall(c) == c.fn \in {"jpyToWei", "weiToJpy"}
\* C11: jpyToWei and weiToJpy both fail with code INVALID_DECIMALS whenever decimals is not an
\* integer in [0,18] (negative, above 18, or fractional) and accept every integer 0..18; the
\* test comes before every test of the amount, so an invalid precision is the error reported
\* even when the amount is invalid too.
C11_InvalidDecimalsFirst ==
    IsConverterCall(call) =>
       (ThrewCode(call.out, "INVALID_DECIMALS") <=> ~IntegerInRange(call.decimals))
\* a negative amount at a fractional precision: the precision is what is reported
C11_Witness ==
    /\ call.fn = "jpyToWei"
    /\ call.amount.t = "string" /\ call.amount.s # <<>> /\ call.amount.s[1] = "-"
    /\ call.decimals.num % call.decimals.den # 0
    /\ ThrewCode(call.out, "INVALID_DECIMALS")

\* a non-negative integer minor-unit string: decimal digits, at least one
IsWeiString(w) == w # <<>> /\ \A i \in 1..Len(w) : w[i] \in Digits
\* w div 10^p and w mod 10^p of a number below 10^9, in integer arithmetic
QuotientOf(n, p) == IF p >= 9 THEN 0 ELSE n \div Pow10(p)
RemainderOf(n, p) == IF p >= 9 THEN n ELSE n % Pow10(p)
\* the same on the digits of longer numbers: all but the last p digits, and the last p digits
QuotientDigits(w, p) == Numeral(SubSeq(w, 1, Len(w) - p))
RemainderDigits(w, p) == Numeral(SubSeq(w, Max(1, Len(w) - p + 1), Len(w)))
QuotientText(w, p) == IF Len(w) <= 9 THEN NatToStr(QuotientOf(StrToNat(w), p)) ELSE QuotientDigits(w, p)
RemainderText(w, p) == IF Len(w) <= 9 THEN NatToStr(RemainderOf(StrToNat(w), p)) ELSE RemainderDigits(w, p)
\* the remainder left-zero-padded to p digits, trailing zeros stripped
FractionText(w, p) ==
    StripTrailingZeros([i \in 1..Max(p, Len(RemainderText(w, p))) |->
                           IF i <= p - Len(RemainderText(w, p)) THEN "0"
                           ELSE RemainderText(w, p)[i - Max(0, p - Len(RemainderText(w, p)))]])
\* C12: for every non-negative integer minor-unit string w and precision p in 0..18,
\* weiToJpy(w, p) returns q alone when w mod 10^p = 0 and otherwise q "." f, where q = w div
\* 10^p and f is w mod 10^p left-zero-padded to p digits with trailing zeros stripped; the
\* output never ends with "." and its fraction never ends with "0".
C12_WeiToJpyFormat ==
    call.fn = "weiToJpy" /\ IsWeiString(call.weiAmount) /\ ValidPrecision(call.decimals) =>
       LET p == PrecisionOf(call.decimals)
           q == QuotientText(call.weiAmount, p)
           f == FractionText(call.weiAmount, p)
       IN /\ Returned(call.out)
          /\ (RemainderText(call.weiAmount, p) = <<"0">> => call.out.value = q)
          /\ (RemainderText(call.weiAmount, p) # <<"0">> => call.out.value = q \o <<".">> \o f)
          /\ call.out.value[Len(call.out.value)] # "."
          /\ ((\E i \in 1..Len(call.out.value) : call.out.value[i] = ".")
                 => call.out.value[Len(call.out.value)] # "0")
\* 150 minor units at precision 4 are 0.015: the remainder is padded on the left and trimmed on the right
C12_Witness ==
    /\ call.fn = "weiToJpy" /\ prev = NoCall
    /\ call.weiAmount = Chars("150") /\ call.decimals = Rat(4, 1)
    /\ call.out = Return(Chars("0.015"))

\* the segments of an identifier by position
SchemeSegment(u) == SubSeq(u, 1, ColonAt(u) - 1)
ContractSegment(u) == SubSeq(u, ColonAt(u) + 1, AtAt(u) - 1)
ChainSegment(u) == SubSeq(u, AtAt(u) + 1, SlashAt(u) - 1)
FunctionSegment(u) == SubSeq(u, SlashAt(u) + 1, QuestionAt(u) - 1)
\* scheme ":" contract "@" digits "/" function "?" query, no segment empty
HasShape(u) ==
    /\ ~NoField(0, ColonAt(u)) /\ ~NoField(ColonAt(u), AtAt(u)) /\ ~NoField(AtAt(u), SlashAt(u))
    /\ ~NoField(SlashAt(u), QuestionAt(u)) /\ QuestionAt(u) < Len(u)
    /\ AllDigits(ChainSegment(u))
\* the characters that delimit the segments or that the query decoding rewrites
ReservedChars == {":", "@", "/", "?", "&", "=", "+", "%", "#", " "}
IsPlainText(s) == s # <<>> /\ \A i \in 1..Len(s) : s[i] \notin ReservedChars
\* the text that follows name "=" in the first pair of that name, as written in the query
WrittenParam(u, name) ==
    LET pairs == Split(QueryOf(u), "&")
        hits == {k \in 1..Len(pairs) : StartsWith(pairs[k], name \o <<"=">>)}
    IN IF hits = {} THEN <<>>
       ELSE SliceFrom(pairs[CHOOSE k \in hits : \A j \in hits : k <= j], Len(name) + 1)
\* an identifier of that shape whose segments are plain text (no delimiter, no escape), in any
\* case and of any length, and whose query gives an address and an amount in digits
IsWellFormedIdentifier(u) ==
    /\ HasShape(u)
    /\ IsPlainText(SchemeSegment(u)) /\ IsPlainText(ContractSegment(u)) /\ IsPlainText(FunctionSegment(u))
    /\ \A k \in 1..Len(Split(QueryOf(u), "&")) :
          \/ StartsWith(Split(QueryOf(u), "&")[k], Chars("address="))
          \/ StartsWith(Split(QueryOf(u), "&")[k], Chars("uint256="))
    /\ IsPlainText(WrittenParam(u, Chars("address")))
    /\ WrittenParam(u, Chars("uint256")) # <<>> /\ AllDigits(WrittenParam(u, Chars("uint256")))
\* C24: decodeEIP681 does not validate addresses: for every well-formed identifier it
\* returns contractAddress and recipientAddress exactly as the identifier writes them, case
\* preserved, whether or not they are checksum-valid or even address-shaped.
C24_AddressesAsWritten ==
    call.fn = "decodeEIP681" /\ call.uri.t = "string" /\ IsWellFormedIdentifier(call.uri.s) =>
       /\ Returned(call.out)
       /\ call.out.value.contractAddress = ContractSegment(call.uri.s)
       /\ call.out.value.recipientAddress = WrittenParam(call.uri.s, Chars("address"))
\* an identifier whose addresses are in mixed case and are no 40-digit addresses at all
C24_Witness ==
    /\ call.fn = "decodeEIP681" /\ prev = NoCall
    /\ call.uri = Str(Chars("ethereum:0xaB@137/transfer?address=0xR&uint256=5"))
    /\ Returned(call.out)
    /\ call.out.value.contractAddress = Chars("0xaB")
    /\ call.out.value.recipientAddress = Chars("0xR")
    /\ isValidAddressFormat(Str(call.out.value.contractAddress)) = Return(FALSE)

\* C25: decodeEIP681 succeeds only on strings of the shape scheme ":" contract "@" digits
\* "/" function "?" query, and every field it returns is the segment at its own position:
\* scheme before the first ":", contractAddress between that ":" and the next "@", chainId
\* the digits between that "@" and the next "/", functionName between that "/" and the
\* first "?" after it, address and uint256 from the query after that "?".
C25_FieldsByPosition ==
    call.fn = "decodeEIP681" /\ Returned(call.out) =>
       /\ call.uri.t = "string" /\ HasShape(call.uri.s)
       /\ call.out.value.scheme = SchemeSegment(call.uri.s)
       /\ call.out.value.contractAddress = ContractSegment(call.uri.s)
       /\ call.out.value.chainId = ParseInt(ChainSegment(call.uri.s))
       /\ call.out.value.functionName = FunctionSegment(call.uri.s)
       /\ Match(call.out.value.recipientAddress) = ParamGet(SearchParams(QueryOf(call.uri.s)), Chars("address"))
       /\ Match(call.out.value.amount) = ParamGet(SearchParams(QueryOf(call.uri.s)), Chars("uint256"))

(***************************************************************************)
(* Properties of the validator and of the generator.                       *)
(***************************************************************************)
MerchantErrorTexts == {"merchantAddress is required", "invalid merchant address format"}
AmountErrorTexts ==
    {"amount is required", "invalid amount format", "amount must be positive", "amount must be finite",
     "amount is too large"}
NetworkErrorTexts == {"unsupported network"}
ContractErrorTexts == {"invalid contract address format"}
DecimalsErrorTexts ==
    {"decimals must be an integer from 0 to 18", "decimals only together with jpycContractAddress"}
\* the place of an error's field in the order merchant address, amount, network, contract
\* address, decimals
FieldOrder(e) ==
    IF e \in MerchantErrorTexts THEN 1
    ELSE IF e \in AmountErrorTexts THEN 2
    ELSE IF e \in NetworkErrorTexts THEN 3
    ELSE IF e \in ContractErrorTexts THEN 4
    ELSE IF e \in DecimalsErrorTexts THEN 5
    ELSE 0
ErrorsAbout(errors, texts) == LET About(e) == e \in texts IN SelectSeq(errors, About)
InFieldOrder(errors) ==
    \A i \in 1..Len(errors) : \A j \in (i + 1)..Len(errors) :
        FieldOrder(errors[i]) >= 1 /\ FieldOrder(errors[i]) <= FieldOrder(errors[j])
IsValidateCall == call.fn = "validateGenerateOptions"
IsGenerateCall == call.fn = "generatePaymentURI"
\* C13: validateGenerateOptions reports the defects of every field, whatever the other fields
\* hold, in the order merchant address, amount, network, contract address, decimals; when
\* there is any, generatePaymentURI throws one VALIDATION_FAILED error whose details.errors
\* is exactly that list, and invokes neither the converter nor the encoder.
C13_AllDefectsInOrder ==
    /\ IsValidateCall =>
          /\ InFieldOrder(call.out.value.errors)
          /\ ErrorsAbout(call.out.value.errors, MerchantErrorTexts) = MerchantErrors(call.options)
          /\ ErrorsAbout(call.out.value.errors, AmountErrorTexts) = AmountErrors(call.options)
          /\ ErrorsAbout(call.out.value.errors, NetworkErrorTexts) = NetworkErrors(call.options)
          /\ ErrorsAbout(call.out.value.errors, ContractErrorTexts) = ContractErrors(call.options)
          /\ ErrorsAbout(call.out.value.errors, DecimalsErrorTexts) = DecimalsErrors(call.options)
    /\ IsGenerateCall =>
          \A errors \in {validateGenerateOptions(call.options).errors} :
              errors # <<>> =>
                 /\ ThrewCode(call.out, "VALIDATION_FAILED")
                 /\ call.out.error.details = [errors |-> errors]
                 /\ InFieldOrder(call.out.error.details.errors)
                 /\ call.invoked = <<"validateGenerateOptions">>
\* a call of generatePaymentURI with a defect in each of the five fields, two of them in decimals
C13_Witness ==
    /\ IsGenerateCall
    /\ ThrewCode(call.out, "VALIDATION_FAILED")
    /\ call.out.error.details.errors =
          <<"invalid merchant address format", "amount must be positive", "unsupported network",
            "invalid contract address format", "decimals must be an integer from 0 to 18",
            "decimals only together with jpycContractAddress">>

\* the amount as the decimal it is written as: a number is its own value, a text has the
\* value of its numeric literal, before any rounding to a double
WrittenAmount(amount) == IF amount.t = "string" THEN StrDecimalLiteral(amount.s) ELSE amount
\* absent or empty, not parsing as a number, zero or negative, infinite, or above 10^15
AmountDefect(amount) ==
    \/ AmountMissing(amount)
    \/ amount.t = "string" /\ HasNonNumericContent(amount.s)
    \/ \E v \in {WrittenAmount(amount)} :
          IsNaN(v) \/ LessEq(v, Zero) \/ ~IsFinite(v) \/ Less(MAX_SAFE_AMOUNT, v)
\* C14: validateGenerateOptions reports an error about the amount when it is absent or
\* empty, does not parse as a number, is zero or negative, is infinite, or exceeds 10^15;
\* every finite amount in (0, 10^15] produces none, and no call reports more than one.
C14_AmountErrorRule ==
    IsValidateCall =>
       \A amountErrors \in {ErrorsAbout(call.out.value.errors, AmountErrorTexts)} :
           /\ Len(amountErrors) <= 1
           /\ (amountErrors # <<>>) = AmountDefect(call.options.amount)

\* C15: validateGenerateOptions returns valid = true exactly when its errors list is empty,
\* whether or not there are warnings.
C15_ValidIffNoErrors ==
    IsValidateCall => call.out.value.valid = (call.out.value.errors = <<>>)
\* a valid result that carries three warnings
C15_Witness ==
    /\ IsValidateCall
    /\ call.out.value.valid /\ call.out.value.errors = <<>>
    /\ call.out.value.warnings = <<"LARGE_AMOUNT", "CUSTOM_CONTRACT", "CUSTOM_DECIMALS">>

AmountWarningCodes == {"SMALL_AMOUNT", "LARGE_AMOUNT"}
Warned(code) == \E i \in 1..Len(call.out.value.warnings) : call.out.value.warnings[i] = code
\* C16: validateGenerateOptions emits SMALL_AMOUNT exactly when 0 < amount < 1 and
\* LARGE_AMOUNT exactly when amount > 10^6, the amount being the decimal as written,
\* whatever decimals is; neither warning is, or comes with, an error about the amount.
C16_AmountWarningThresholds ==
    IsValidateCall =>
       /\ AmountMissing(call.options.amount) => ~Warned("SMALL_AMOUNT") /\ ~Warned("LARGE_AMOUNT")
       /\ ~AmountMissing(call.options.amount) =>
             \A v \in {WrittenAmount(call.options.amount)} :
                 /\ Warned("SMALL_AMOUNT") = (Less(Zero, v) /\ Less(v, One))
                 /\ Warned("LARGE_AMOUNT") = Less(LARGE_AMOUNT_LIMIT, v)
                 /\ (Warned("SMALL_AMOUNT") \/ (Warned("LARGE_AMOUNT") /\ LessEq(v, MAX_SAFE_AMOUNT)))
                       => ErrorsAbout(call.out.value.errors, AmountErrorTexts) = <<>>
       /\ \A i \in 1..Len(call.out.value.errors) : call.out.value.errors[i] \notin AmountWarningCodes

Reported(text) == \E i \in 1..Len(call.out.value.errors) : call.out.value.errors[i] = text
\* C17: when decimals is provided, validateGenerateOptions reports an error if
\* jpycContractAddress is not (also when decimals is 18), an error if decimals is not an
\* integer in [0,18], and the CUSTOM_DECIMALS warning if decimals is not 18; a decimals in
\* range next to a well-formed contract address gives no error; when decimals is absent
\* there is no error about decimals and no CUSTOM_DECIMALS.
C17_DecimalsRules ==
    IsValidateCall =>
       /\ call.options.decimals # Undefined =>
             /\ call.options.jpycContractAddress = Undefined
                   => Reported("decimals only together with jpycContractAddress")
             /\ ~IntegerInRange(call.options.decimals) = Reported("decimals must be an integer from 0 to 18")
             /\ (call.options.decimals # Rat(18, 1)) = Warned("CUSTOM_DECIMALS")
             /\ IntegerInRange(call.options.decimals) /\ Warned("CUSTOM_CONTRACT")
                   => ErrorsAbout(call.out.value.errors, DecimalsErrorTexts) = <<>>
       /\ call.options.decimals = Undefined =>
             /\ ErrorsAbout(call.out.value.errors, DecimalsErrorTexts) = <<>>
             /\ ~Warned("CUSTOM_DECIMALS")
\* decimals 18 without a contract address: the only defect of the call, and no warning
C17_Witness ==
    /\ IsValidateCall
    /\ call.options.decimals = Rat(18, 1) /\ call.options.jpycContractAddress = Undefined
    /\ call.out.value.errors = <<"decimals only together with jpycContractAddress">>
    /\ call.out.value.warnings = <<>>

\* C18: validateGenerateOptions reports an error about the network exactly when network is
\* provided and is none of ethereum, polygon, avalanche.
C18_UnknownNetworkRejected ==
    IsValidateCall =>
       Reported("unsupported network")
          = (call.options.network # Undefined /\ call.options.network.s \notin SupportedNetworks)

WarningCount(code) ==
    Cardinality({i \in 1..Len(call.out.value.warnings) : call.out.value.warnings[i] = code})
\* C19: a jpycContractAddress that is provided and fails the format check gives an error
\* and no CUSTOM_CONTRACT warning; one that is provided and passes it gives no contract
\* error and exactly one CUSTOM_CONTRACT warning; an absent one gives neither.
C19_ContractAddressRules ==
    IsValidateCall =>
       /\ call.options.jpycContractAddress # Undefined
           /\ FirstFailure(call.options.jpycContractAddress.s) # "none"
             => Reported("invalid contract address format") /\ WarningCount("CUSTOM_CONTRACT") = 0
       /\ call.options.jpycContractAddress # Undefined
           /\ FirstFailure(call.options.jpycContractAddress.s) = "none"
             => ~Reported("invalid contract address format") /\ WarningCount("CUSTOM_CONTRACT") = 1
       /\ call.options.jpycContractAddress = Undefined
             => ~Reported("invalid contract address format") /\ WarningCount("CUSTOM_CONTRACT") = 0
\* a well-formed custom contract address: valid, with the one warning
C19_Witness ==
    /\ IsValidateCall
    /\ call.options.jpycContractAddress = Str(Chars("0xABCDEFABCDEFABCDEFABCDEFABCDEFABCDEFABCD"))
    /\ call.out.value.valid
    /\ call.out.value.warnings = <<"CUSTOM_CONTRACT">>

\* the chain id the claim gives for each known network
ClaimedChainId(network) ==
    IF network = Chars("ethereum") THEN Num(FALSE, <<"1">>, 1)
    ELSE IF network = Chars("polygon") THEN Num(FALSE, Chars("137"), 3)
    ELSE Num(FALSE, Chars("43114"), 5)
\* C20: a generatePaymentURI that returns has used network = options.network, or polygon
\* when absent; chainId 1 / 137 / 43114 for ethereum / polygon / avalanche; the contract
\* address that was given, or else the canonical one; decimals = options.decimals, or 18
\* when absent; and it returns amountWei = jpyToWei(amount, decimals) and
\* uri = encodeEIP681(contract, merchantAddress, amountWei, chainId).
C20_DefaultsAndResult ==
    IsGenerateCall /\ Returned(call.out) =>
       /\ call.out.value.network
             = (IF call.options.network = Undefined THEN Chars("polygon") ELSE call.options.network.s)
       /\ call.out.value.network \in SupportedNetworks
             => call.out.value.chainId = ClaimedChainId(call.out.value.network)
       /\ call.out.value.jpycContractAddress
             = (IF call.options.jpycContractAddress = Undefined
                THEN Chars("0xe7c3d8c9a439fede00d2600032d5db0be71c3c29")
                ELSE call.options.jpycContractAddress.s)
       /\ call.out.value.decimals
             = (IF call.options.decimals = Undefined THEN Rat(18, 1) ELSE call.options.decimals)
       /\ Return(call.out.value.amountWei) = jpyToWei(call.options.amount, call.out.value.decimals)
       /\ Return(call.out.value.uri)
             = encodeEIP681(Str(call.out.value.jpycContractAddress), call.options.merchantAddress,
                            call.out.value.amountWei, call.out.value.chainId)
       /\ call.invoked = <<"validateGenerateOptions", "jpyToWei", "encodeEIP681">>
\* 100 units to a merchant with nothing else given: polygon, the canonical contract, 18 decimals
C20_Witness ==
    /\ IsGenerateCall /\ Returned(call.out)
    /\ call.options = Options(Str(Chars("0x1234567890123456789012345678901234567890")), Str(Chars("100")),
                              Undefined, Undefined, Undefined)
    /\ call.out.value.network = Chars("polygon")
    /\ call.out.value.chainId = Num(FALSE, Chars("137"), 3)
    /\ call.out.value.decimals = Rat(18, 1)
    /\ call.out.value.amountWei = Chars("100000000000000000000")
    /\ call.out.value.uri
          = Chars("ethereum:0xE7C3D8C9a439feDe00D2600032D5dB0Be71C3c29@137/transfer?address=0x1234567890123456789012345678901234567890&uint256=100000000000000000000")

\* the codes of JPYCPaymentErrorCode
DocumentedCodes ==
    {"INVALID_ADDRESS", "INVALID_AMOUNT", "INVALID_NETWORK", "INVALID_DECIMALS", "VALIDATION_FAILED",
     "ENCODING_FAILED", "QR_GENERATION_FAILED", "CHECKSUM_FAILED"}
\* C21: for every options value generatePaymentURI either returns a result or throws a
\* JPYCPaymentError that carries one of the documented codes; nothing else escapes.
C21_OnlyDocumentedErrors ==
    IsGenerateCall =>
       \/ Returned(call.out)
       \/ /\ Threw(call.out)
          /\ call.out.error.name = "JPYCPaymentError"
          /\ call.out.error.code \in DocumentedCodes

\* C22: warnings never block generation: whenever validateGenerateOptions says the options
\* are valid, generatePaymentURI returns a result whose warnings are the validator's
\* warnings, same codes in the same order, also when there are some.
C22_WarningsNeverBlock ==
    IsGenerateCall =>
       \A validation \in {validateGenerateOptions(call.options)} :
          validation.valid =>
             /\ Returned(call.out)
             /\ call.out.value.warnings = validation.warnings

\* C26: every error thrown by toChecksumAddress, jpyToWei and weiToJpy is a
\* JPYCPaymentError with structured detail: its details hold the offending value, and the
\* details of an INVALID_DECIMALS error hold the decimals given and the bound they broke.
C26_StructuredErrors ==
    call.fn \in {"toChecksumAddress", "jpyToWei", "weiToJpy"} /\ Threw(call.out) =>
       /\ call.out.error.name = "JPYCPaymentError"
       /\ call.out.error.details # NoDetails
       /\ call.out.error.code = "INVALID_ADDRESS" => call.out.error.details.address = call.address.s
       /\ call.out.error.code = "INVALID_AMOUNT" => "amount" \in DOMAIN call.out.error.details
       /\ call.out.error.code = "INVALID_DECIMALS" => "decimals" \in DOMAIN call.out.error.details

\* the lists a call handed out, as they stand in a given state of the process
ListsOf(c, process) == <<process.arrays[c.errors], process.arrays[c.warnings]>>
MadeLists(c) == c.fn \in {"validateGenerateOptions", "generatePaymentURI"}
\* the outcome of the same call made first and alone
AloneOutcome(c) ==
    IF c.fn = "validateGenerateOptions" THEN ValidateIn(c.caller, InitialProcess).out
    ELSE IF c.fn = "generatePaymentURI" THEN GenerateIn(c.caller, InitialProcess).out
    ELSE c.out
\* C27: in every order of calls from several callers no call writes to the process:
\* CHAIN_CONFIGS and the callers' options objects stay as they were, every validation hands
\* out two arrays created during that call, the lists of the call before are left as they
\* were returned, and the outcome of a call is the one the same call has when made alone.
C27_CallsAreIndependent ==
    call # NoCall =>
       /\ call.process.CHAIN_CONFIGS = InitialProcess.CHAIN_CONFIGS
       /\ call.process.options = CallerOptions
       /\ MadeLists(call) =>
             /\ call.errors > call.before /\ call.warnings > call.before
             /\ call.errors # call.warnings
       /\ prev # NoCall /\ MadeLists(prev) => ListsOf(prev, call.process) = ListsOf(prev, prev.process)
       /\ call.out = AloneOutcome(call)
\* a validation of one caller right after a generation of the other, each with its own lists
C27_Witness ==
    /\ call # NoCall /\ prev # NoCall
    /\ call.fn = "validateGenerateOptions" /\ call.caller = 2 /\ ~call.out.value.valid
    /\ prev.fn = "generatePaymentURI" /\ prev.caller = 1 /\ Returned(prev.out)
    /\ prev.out.value.warnings # <<>>
    /\ Len(call.process.arrays) = 2 * MaxValidations
    /\ {prev.errors, prev.warnings} \cap {call.errors, call.warnings} = {}

\* a decimal integer string greater than zero
IsPositiveInteger(digits) == digits # <<>> /\ AllDigits(digits) /\ \E i \in 1..Len(digits) : digits[i] # "0"
\* C28: every result of generatePaymentURI asks for a transfer greater than zero: amountWei,
\* which is also the uint256 field of the identifier, is a positive integer for every amount
\* and decimals that were accepted.
C28_PositiveTransfer ==
    IsGenerateCall /\ Returned(call.out) =>
       /\ IsPositiveInteger(call.out.value.amountWei)
       /\ WrittenParam(call.out.value.uri, Chars("uint256")) = call.out.value.amountWei

\* C29: validation is sufficient for generation: whenever validateGenerateOptions finds the
\* options valid, generatePaymentURI returns a result; neither jpyToWei nor encodeEIP681
\* fails on what the validator accepted, for numbers and strings alike.
C29_ValidationSuffices ==
    IsGenerateCall /\ validateGenerateOptions(call.options).valid => Returned(call.out)

\* a decimal cut to at most p fraction digits
CutTo(A, p) == IntDigits(A) \o <<".">> \o SubSeq(FracDigits(A), 1, Min(p, Len(FracDigits(A))))
=============================================================================
